---- MODULE Spec2Model ----
(***************************************************************************)
(* CodeCloze webhook handler: the POST handler of                          *)
(* src/app/api/github/webhook/route.ts (lines 82-403) with the helpers it  *)
(* calls (getInstallationToken, createAppJwt, runGatingModel,              *)
(* runReviewModel, postComment).  One request is followed from the moment  *)
(* its body and headers are read until a response is produced.             *)
(***************************************************************************)
EXTENDS Integers, Sequences, FiniteSets, TLC

VARIABLES
    secret,         \* process.env.GITHUB_WEBHOOK_SECRET
    rawBody,        \* request.text(): the exact byte string, as a code number
    signature,      \* header x-hub-signature-256
    event,          \* header x-github-event
    pc,             \* position of the handler
    payload,        \* JSON.parse(rawBody)
    ctx,            \* installationId, owner, repo, issueNumber
    token,          \* installation token
    diffText,       \* fetched diff
    diffStats,      \* the statistics computed from the diff (step 5)
    needsReview,    \* gating decision
    reviewResponse, \* result of runReviewModel, or null
    commentBody,    \* rendered comment
    response,       \* the HTTP response of the handler
    env,            \* process.env values read by the helpers so far
    gatingReply,    \* what callLLM gave the gating stage
    reviewReply,    \* what callResponsesAPI gave the review stage
    postReply,      \* the platform's reply to the comment post
    tokenReply,     \* the platform's reply to the token exchange
    diffReply,      \* the platform's reply to the diff fetch
    dateNow,        \* the clock reading of createAppJwt, in seconds
    signKey,        \* the private key createAppJwt hands to jwt.sign
    parked,         \* the locals of the other invocation in flight, if any
    apiData,        \* a response body of the model service given to callLLM
    completion,     \* what callLLM made of apiData
    cachedClient,   \* the client handle the module keeps (null at load)
    clientEnv,      \* AZURE_OPENAI_ENDPOINT and AZURE_OPENAI_API_KEY
    clientCalls,    \* the calls of getClient so far, with what they gave
    calls,          \* outbound calls issued so far, in order
    steps           \* stages of the handler entered so far

vars == <<secret, rawBody, signature, event, pc, payload, ctx, token,
          diffText, diffStats,
          needsReview, reviewResponse, commentBody, response, env,
          gatingReply, reviewReply, postReply, tokenReply, diffReply, dateNow,
          signKey, parked, apiData, completion, cachedClient, clientEnv,
          clientCalls, calls, steps>>

\* what no step of the handler touches
client == <<cachedClient, clientEnv, clientCalls>>

outside == <<parked, apiData, completion, client>>

----------------------------------------------------------------------------
(* JavaScript values *)

Undefined == [t |-> "undefined"]
Null == [t |-> "null"]
Str(s) == [t |-> "string", s |-> s]
Num(n) == [t |-> "number", n |-> n]
Bool(b) == [t |-> "boolean", b |-> b]
Obj(p) == [t |-> "object", props |-> p]
Arr(a) == [t |-> "array", items |-> a]

NoProps == [k \in {} |-> Undefined]

\* JavaScript truthiness, as used by `!x`, `x || y` and `if (x)`
Truthy(v) ==
    CASE v.t = "undefined" -> FALSE
      [] v.t = "null" -> FALSE
      [] v.t = "string" -> Len(v.s) > 0
      [] v.t = "number" -> v.n # 0
      [] v.t = "boolean" -> v.b
      [] OTHER -> TRUE

\* `v.k` throws a TypeError exactly when v is null or undefined
GetThrows(v) == v.t \in {"undefined", "null"}

\* `v.k` for a value on which the access does not throw
Get(v, k) ==
    IF v.t = "object" /\ k \in DOMAIN v.props THEN v.props[k] ELSE Undefined

\* `v?.k`
OptGet(v, k) == IF GetThrows(v) THEN Undefined ELSE Get(v, k)

\* String.prototype.includes
Includes(hay, needle) ==
    \E i \in 0..(Len(hay) - Len(needle)) :
        SubSeq(hay, i + 1, i + Len(needle)) = needle

----------------------------------------------------------------------------
(* Texts that the handler compares *)

InvocationToken ==
    <<"@", "c", "o", "d", "e", "c", "l", "o", "z", "e", " ",
      "r", "e", "v", "i", "e", "w">>
IssueComment ==
    <<"i", "s", "s", "u", "e", "_", "c", "o", "m", "m", "e", "n", "t">>
Created == <<"c", "r", "e", "a", "t", "e", "d">>
Sha256Prefix == <<"s", "h", "a", "2", "5", "6", "=">>

Push == <<"p", "u", "s", "h">>
Edited == <<"e", "d", "i", "t", "e", "d">>
WrongCaseToken ==
    <<"@", "C", "o", "d", "e", "C", "l", "o", "z", "e", " ",
      "R", "e", "v", "i", "e", "w">>
Acme == <<"a", "c", "m", "e">>
Widgets == <<"w", "i", "d", "g", "e", "t", "s">>

----------------------------------------------------------------------------
(* The request: raw bodies and what JSON.parse makes of them.              *)
(* A raw body is the exact byte string sent; it is represented by a code   *)
(* number that identifies the byte string.  Codes 0, 1, 2 are the texts    *)
(* `{"action":` (not JSON), `null` and `42`; every other code is the text  *)
(* of a JSON object whose members are picked, by mixed radix, from the     *)
(* field tables below (Undefined in a table = the member is absent).       *)

ActionField == <<Undefined, Str(Created), Str(Edited)>>
CommentField ==
    <<Undefined,
      Obj([body |-> Str(<<>>)]),
      Obj([body |-> Str(<<"p", "l", "s", " ">> \o InvocationToken \o <<"!">>)]),
      Obj([body |-> Str(WrongCaseToken)]),
      Obj([body |-> Num(5)]),
      Obj([body |-> Arr(<<Str(InvocationToken)>>)])>>
IssueField ==
    <<Undefined,
      Obj([number |-> Num(7)]),
      Obj([pull_request |-> Obj(NoProps), number |-> Num(7)]),
      Obj([pull_request |-> Obj(NoProps)]),
      Obj([pull_request |-> Obj(NoProps), number |-> Num(0)])>>
InstallationField == <<Undefined, Obj([id |-> Num(1)])>>
RepositoryField ==
    <<Undefined,
      Obj([owner |-> Obj([login |-> Str(Acme)])]),
      Obj([name |-> Str(Widgets)]),
      Obj([owner |-> Obj([login |-> Str(Acme)]), name |-> Str(Widgets)])>>

NumObjectBodies ==
    Len(ActionField) * Len(CommentField) * Len(IssueField)
        * Len(InstallationField) * Len(RepositoryField)
NumRawBodies == 3 + NumObjectBodies
RawBodies == 0..(NumRawBodies - 1)

\* an object with the members of f that are not Undefined
MkObj(f) == Obj([k \in {j \in DOMAIN f : f[j] # Undefined} |-> f[k]])

ObjectBody(n) ==
    LET a == n % Len(ActionField)
        n1 == n \div Len(ActionField)
        c == n1 % Len(CommentField)
        n2 == n1 \div Len(CommentField)
        i == n2 % Len(IssueField)
        n3 == n2 \div Len(IssueField)
        s == n3 % Len(InstallationField)
        r == n3 \div Len(InstallationField)
    IN  MkObj([action |-> ActionField[a + 1],
               comment |-> CommentField[c + 1],
               issue |-> IssueField[i + 1],
               installation |-> InstallationField[s + 1],
               repository |-> RepositoryField[r + 1]])

\* JSON.parse(rawBody) throws a SyntaxError
JSONParseThrows(body) == body = 0

\* JSON.parse(rawBody) when it does not throw
JSONParse(body) ==
    CASE body = 1 -> Null
      [] body = 2 -> Num(42)
      [] OTHER -> ObjectBody(body - 3)

----------------------------------------------------------------------------
(* Signature: crypto.createHmac("sha256", secret).update(rawBody)          *)
(* .digest("hex") and crypto.timingSafeEqual                               *)

HexDigits ==
    <<"0", "1", "2", "3", "4", "5", "6", "7",
      "8", "9", "a", "b", "c", "d", "e", "f">>

\* n written with `width` hex digits, most significant first (n < 16^8)
ToHex(n, width) ==
    [i \in 1..width |->
        LET p == width - i IN
        IF p > 7 THEN "0" ELSE HexDigits[((n \div (16 ^ p)) % 16) + 1]]

HexValue(ch) == (CHOOSE i \in 1..16 : HexDigits[i] = ch) - 1

RECURSIVE KeyCode(_)
KeyCode(key) ==
    IF key = <<>> THEN 0
    ELSE 16 * KeyCode(SubSeq(key, 1, Len(key) - 1)) + HexValue(key[Len(key)])

\* The hex digest: 64 hex characters.  The keyed hash is represented by a
\* function that is injective on (key, body) over the keys and bodies of the
\* model (a multiplication by an odd number modulo 2^20 is a bijection), which
\* is the property of HMAC-SHA256 the handler relies on.
HmacSha256Hex(key, body) ==
    ToHex(((KeyCode(key) * NumRawBodies + body) * 1021) % 1048576, 64)

ExpectedSignature(key, body) == Sha256Prefix \o HmacSha256Hex(key, body)

\* crypto.timingSafeEqual(a, b) throws a RangeError when the byte lengths differ
TimingSafeEqualThrows(a, b) == Len(a) # Len(b)
\* a comparison that looks at the lengths only
TimingSafeEqualLengthOnly(a, b) == Len(a) = Len(b)
TimingSafeEqual(a, b) == a = b

\* the key the sender signs with, and another one
SenderKey == <<"5", "e">>
OtherKey == <<"e", "5">>

Secrets == {Undefined, Str(<<>>), Str(SenderKey)}
Events == {Null, Str(IssueComment), Str(Push)}

\* a body that differs from `body`
Mutated(body) == (body + 1) % NumRawBodies

SignatureHeaders(body) ==
    LET good == ExpectedSignature(SenderKey, body) IN
    { Null,
      Str(<<>>),
      Str(good),
      Str(ExpectedSignature(SenderKey, Mutated(body))),
      Str(ExpectedSignature(OtherKey, body)),
      Str(SubSeq(good, 1, Len(good) - 1)) }

----------------------------------------------------------------------------
(* Responses: NextResponse.json(body, {status}), status 200 by default *)

NoResponse == [status |-> 0, body |-> [kind |-> "none"]]
ErrorBody(msg) == [kind |-> "error", error |-> msg]
IgnoredBody == [kind |-> "ignored"]
SuccessBody(nr, n) ==
    [kind |-> "success", needsReview |-> nr, findingsCount |-> n]

Respond(status, body) ==
    /\ response' = [status |-> status, body |-> body]
    /\ pc' = "done"

Goto(p) ==
    /\ pc' = p
    /\ UNCHANGED response

\* the exception leaves the handler: no response is produced
GlobalCatchUnanswered ==
    /\ pc' = "done"
    /\ UNCHANGED response

\* the catch block of the whole handler (route.ts 388-402)
GlobalCatch == Respond(500, ErrorBody("Internal server error"))

Enter(stage) == steps' = steps \cup {stage}

NoEnv ==
    [appId |-> Undefined, privateKey |-> Undefined,
     gatingDeployment |-> Undefined, reviewDeployment |-> Undefined]

NoClientEnv == [endpoint |-> Undefined, apiKey |-> Undefined]

NoCtx ==
    [installationId |-> Undefined, owner |-> Undefined,
     repo |-> Undefined, issueNumber |-> Undefined]

Init ==
    /\ secret \in Secrets
    /\ rawBody \in RawBodies
    /\ signature \in SignatureHeaders(rawBody)
    /\ event \in Events
    /\ pc = "verify"
    /\ payload = Undefined
    /\ ctx = NoCtx
    /\ token = Undefined
    /\ diffText = Undefined
    /\ diffStats = Undefined
    /\ needsReview = Undefined
    /\ reviewResponse = Null
    /\ commentBody = Undefined
    /\ response = NoResponse
    /\ env = NoEnv
    /\ gatingReply = Undefined
    /\ reviewReply = Undefined
    /\ postReply = Undefined
    /\ tokenReply = Undefined
    /\ diffReply = Undefined
    /\ dateNow = Undefined
    /\ signKey = Undefined
    /\ parked = Null
    /\ apiData = Undefined
    /\ completion = Undefined
    /\ cachedClient = Null
    /\ clientEnv = NoClientEnv
    /\ clientCalls = <<>>
    /\ calls = <<>>
    /\ steps = {}

----------------------------------------------------------------------------
(* Signature verification (route.ts 94-123) *)

\* the signature is compared without first testing that the header is there:
\* Buffer.from(null) throws
VerifyOutcomeNoPresenceTest(sec, sig, body) ==
    IF ~Truthy(sec) THEN "misconfigured"
    ELSE IF sig.t # "string" THEN "throw"
    ELSE IF TimingSafeEqualThrows(sig.s, ExpectedSignature(sec.s, body))
         THEN "throw"
    ELSE IF ~TimingSafeEqual(sig.s, ExpectedSignature(sec.s, body))
         THEN "reject"
    ELSE "pass"

\* verification is skipped when the secret is not configured
VerifyOutcomeSkipUnconfigured(sec, sig, body) ==
    IF ~Truthy(sec) THEN "pass"
    ELSE IF ~Truthy(sig) THEN "reject"
    ELSE IF TimingSafeEqualThrows(sig.s, ExpectedSignature(sec.s, body))
         THEN "throw"
    ELSE IF ~TimingSafeEqual(sig.s, ExpectedSignature(sec.s, body))
         THEN "reject"
    ELSE "pass"

VerifyOutcome(sec, sig, body) ==
    IF ~Truthy(sec) THEN "misconfigured"
    ELSE IF ~Truthy(sig) THEN "reject"
    ELSE IF TimingSafeEqualThrows(sig.s, ExpectedSignature(sec.s, body))
         THEN "throw"
    ELSE IF ~TimingSafeEqual(sig.s, ExpectedSignature(sec.s, body))
         THEN "reject"
    ELSE "pass"

VerifySignature ==
    /\ pc = "verify"
    /\ Enter("verify")
    /\ LET o == VerifyOutcome(secret, signature, rawBody) IN
        CASE o = "misconfigured" ->
                Respond(500, ErrorBody("Server misconfigured"))
          [] o = "reject" -> Respond(401, ErrorBody("Invalid signature"))
          [] o = "throw" -> GlobalCatch
          [] OTHER -> Goto("parse")
    /\ UNCHANGED <<secret, rawBody, signature, event, payload, ctx, token,
                   diffText, diffStats, needsReview, reviewResponse, commentBody, env,
                   gatingReply, reviewReply, postReply, tokenReply,
                   diffReply, dateNow, signKey,
                   outside, calls>>

(* Parse JSON payload (route.ts 125-136) *)
ParsePayload ==
    /\ pc = "parse"
    /\ Enter("parse")
    /\ IF JSONParseThrows(rawBody)
       THEN /\ Respond(400, ErrorBody("Invalid JSON payload"))
            /\ UNCHANGED payload
       ELSE /\ payload' = JSONParse(rawBody)
            /\ Goto("filter")
    /\ UNCHANGED <<secret, rawBody, signature, event, ctx, token,
                   diffText, diffStats, needsReview, reviewResponse, commentBody, env,
                   gatingReply, reviewReply, postReply, tokenReply,
                   diffReply, dateNow, signKey,
                   outside, calls>>

(* Event filtering (route.ts 138-143):                                     *)
(* event !== "issue_comment" || payload.action !== "created"               *)
FilterOutcome(ev, pl) ==
    IF ev # Str(IssueComment) THEN "ignored"
    ELSE IF GetThrows(pl) THEN "throw"
    ELSE IF Get(pl, "action") # Str(Created) THEN "ignored"
    ELSE "pass"

FilterEvent ==
    /\ pc = "filter"
    /\ Enter("filter")
    /\ LET o == FilterOutcome(event, payload) IN
        CASE o = "ignored" -> Respond(200, IgnoredBody)
          [] o = "throw" -> GlobalCatch
          [] OTHER -> Goto("invocation")
    /\ UNCHANGED <<secret, rawBody, signature, event, payload, ctx, token,
                   diffText, diffStats, needsReview, reviewResponse, commentBody, env,
                   gatingReply, reviewReply, postReply, tokenReply,
                   diffReply, dateNow, signKey,
                   outside, calls>>

(* Explicit invocation check (route.ts 145-152):                           *)
(* (payload.comment?.body || "").includes("@codecloze review")             *)
InvocationComment(pl) ==
    LET b == OptGet(Get(pl, "comment"), "body") IN
    IF Truthy(b) THEN b ELSE Str(<<>>)

InvocationOutcome(pl) ==
    LET c == InvocationComment(pl) IN
    CASE c.t = "string" ->
            IF Includes(c.s, InvocationToken) THEN "pass" ELSE "ignored"
      [] c.t = "array" ->
            IF \E i \in 1..Len(c.items) : c.items[i] = Str(InvocationToken)
            THEN "pass" ELSE "ignored"
      [] OTHER -> "throw"

CheckInvocation ==
    /\ pc = "invocation"
    /\ Enter("invocation")
    /\ LET o == InvocationOutcome(payload) IN
        CASE o = "ignored" -> Respond(200, IgnoredBody)
          [] o = "throw" -> GlobalCatch
          [] OTHER -> Goto("pr")
    /\ UNCHANGED <<secret, rawBody, signature, event, payload, ctx, token,
                   diffText, diffStats, needsReview, reviewResponse, commentBody, env,
                   gatingReply, reviewReply, postReply, tokenReply,
                   diffReply, dateNow, signKey,
                   outside, calls>>

(* PR validation (route.ts 154-159): !payload.issue?.pull_request *)
IsPullRequest(pl) == Truthy(OptGet(Get(pl, "issue"), "pull_request"))

CheckPullRequest ==
    /\ pc = "pr"
    /\ Enter("pr")
    /\ IF IsPullRequest(payload)
       THEN Goto("context")
       ELSE Respond(200, IgnoredBody)
    /\ UNCHANGED <<secret, rawBody, signature, event, payload, ctx, token,
                   diffText, diffStats, needsReview, reviewResponse, commentBody, env,
                   gatingReply, reviewReply, postReply, tokenReply,
                   diffReply, dateNow, signKey,
                   outside, calls>>

(* Extract GitHub context and validate it (route.ts 170-198) *)
Context(pl) ==
    [installationId |-> OptGet(Get(pl, "installation"), "id"),
     owner |-> OptGet(OptGet(Get(pl, "repository"), "owner"), "login"),
     repo |-> OptGet(Get(pl, "repository"), "name"),
     issueNumber |-> OptGet(Get(pl, "issue"), "number")]

\* the validation without the issue number
ContextCompleteNoIssueNumber(c) ==
    /\ Truthy(c.installationId)
    /\ Truthy(c.owner)
    /\ Truthy(c.repo)

ContextComplete(c) ==
    /\ Truthy(c.installationId)
    /\ Truthy(c.owner)
    /\ Truthy(c.repo)
    /\ Truthy(c.issueNumber)

ExtractContext ==
    /\ pc = "context"
    /\ Enter("context")
    /\ ctx' = Context(payload)
    /\ IF ContextComplete(ctx')
       THEN Goto("auth")
       ELSE Respond(400, ErrorBody("Invalid payload: missing required fields"))
    /\ UNCHANGED <<secret, rawBody, signature, event, payload, token,
                   diffText, diffStats, needsReview, reviewResponse, commentBody, env,
                   gatingReply, reviewReply, postReply, tokenReply,
                   diffReply, dateNow, signKey,
                   outside, calls>>

----------------------------------------------------------------------------
(* GitHub App authentication: createAppJwt (appAuth.ts 3-59) and           *)
(* getInstallationToken (installationToken.ts 3-41)                        *)

Threw(msg) == [threw |-> TRUE, message |-> msg]
Returned(v) == [threw |-> FALSE, value |-> v]

\* Decoded key material, character by character
BeginWord == <<"B", "E", "G", "I", "N">>
PrivateKeyWords == <<"P", "R", "I", "V", "A", "T", "E", " ", "K", "E", "Y">>
Dashes == <<"-", "-", "-", "-", "-">>
BeginMarker == Dashes \o BeginWord \o <<" ">>
EndMarker == Dashes \o <<"E", "N", "D", " ">>

\* the characters \s matches (the others of the class are in no key here)
WhitespaceChars == {" ", "\t", "\n", "\r"}

\* a private key with its body on one line
PemLine(body) ==
    BeginMarker \o PrivateKeyWords \o Dashes \o <<"\n">> \o body \o <<"\n">>
        \o EndMarker \o PrivateKeyWords \o Dashes \o <<"\n">>

\* a key of which storage has taken every newline
Stripped(body) ==
    BeginMarker \o PrivateKeyWords \o Dashes \o body
        \o EndMarker \o PrivateKeyWords \o Dashes

PemWrapped == PemLine(<<"b", "o", "d", "y">>)
PemStripped == Stripped(<<"b", "o", "d", "y">>)
PemCorrupt == PemLine(<<"j", "u", "n", "k">>)
NotPem == <<"j", "u", "n", "k">>

PrivateKeys ==
    {Undefined, Str(PemWrapped), Str(PemStripped), Str(PemCorrupt), Str(NotPem)}
AppIds == {Undefined, Str(<<"4", "2">>)}

\* the longest run of characters other than "-" that starts at index i
RECURSIVE NoDashRun(_, _)
NoDashRun(text, i) ==
    IF i > Len(text) \/ text[i] = "-" THEN <<>>
    ELSE <<text[i]>> \o NoDashRun(text, i + 1)

\* text has word at index i
HasAt(text, word, i) ==
    /\ i + Len(word) - 1 <= Len(text)
    /\ SubSeq(text, i, i + Len(word) - 1) = word

\* /-----BEGIN ([^-]+)-----([^-]+)-----END ([^-]+)-----/ tried at index i:
\* each group is a run of characters other than "-", not empty, and what
\* follows a group begins with "-", so a group is the longest such run
MatchAt(key, i) ==
    LET keyType == NoDashRun(key, i + Len(BeginMarker))
        j == i + Len(BeginMarker) + Len(keyType)
        keyBody == NoDashRun(key, j + Len(Dashes))
        k == j + Len(Dashes) + Len(keyBody)
        endType == NoDashRun(key, k + Len(EndMarker))
        l == k + Len(EndMarker) + Len(endType)
    IN  IF /\ HasAt(key, BeginMarker, i) /\ keyType # <<>>
           /\ HasAt(key, Dashes, j) /\ keyBody # <<>>
           /\ HasAt(key, EndMarker, k) /\ endType # <<>>
           /\ HasAt(key, Dashes, l)
        THEN [found |-> TRUE, keyType |-> keyType, keyBody |-> keyBody,
              endType |-> endType]
        ELSE [found |-> FALSE]

\* privateKey.match(...): the match that starts first, if there is one
KeyMatch(key) ==
    LET at == {i \in 1..Len(key) : MatchAt(key, i).found} IN
    IF at = {} THEN [found |-> FALSE]
    ELSE MatchAt(key, CHOOSE i \in at : \A j \in at : i <= j)

\* keyBody.replace(/\s/g, "")
CleanedBody(keyBody) == SelectSeq(keyBody, LAMBDA c : c \notin WhitespaceChars)

\* the line length of PEM (appAuth.ts 36)
LineLength == 64

\* the body is left on one line
ChunksUnsplit(text) == IF text = <<>> THEN <<>> ELSE <<text>>

\* cleanedBody.match(/.{1,64}/g): pieces of 64 characters, the last one
\* shorter; no piece for the empty text
RECURSIVE Chunks(_)
Chunks(text) ==
    IF text = <<>> THEN <<>>
    ELSE IF Len(text) <= LineLength THEN <<text>>
    ELSE <<SubSeq(text, 1, LineLength)>>
             \o Chunks(SubSeq(text, LineLength + 1, Len(text)))

\* Array.prototype.join("\n")
RECURSIVE JoinLines(_)
JoinLines(lines) ==
    IF lines = <<>> THEN <<>>
    ELSE IF Len(lines) = 1 THEN lines[1]
    ELSE lines[1] \o <<"\n">> \o JoinLines(Tail(lines))

\* appAuth.ts 27-39: newlines are restored when the key has none
RestoreNewlines(key) ==
    IF Includes(key, <<"\n">>) THEN key
    ELSE LET match == KeyMatch(key) IN
         IF ~match.found THEN key
         ELSE BeginMarker \o match.keyType \o Dashes \o <<"\n">>
                  \o JoinLines(Chunks(CleanedBody(match.keyBody))) \o <<"\n">>
                  \o EndMarker \o match.endType \o Dashes \o <<"\n">>

MaxBodyLength == 130

Base64Chars == <<"A", "b", "0", "+", "/", "Z", "9">>

\* a key body of n characters
KeyBody(n) == [i \in 1..n |-> Base64Chars[((i - 1) % Len(Base64Chars)) + 1]]

\* the bodies of the keys the platform has registered for the app
RegisteredBodies ==
    {<<"b", "o", "d", "y">>} \cup {KeyBody(n) : n \in 1..MaxBodyLength}

\* the PEM text of a private key: the body in lines of 64 characters
\* between the marker lines
PemText(body) ==
    BeginMarker \o PrivateKeyWords \o Dashes \o <<"\n">>
        \o JoinLines(Chunks(body)) \o <<"\n">>
        \o EndMarker \o PrivateKeyWords \o Dashes \o <<"\n">>

\* the PEM texts of the registered keys
RegisteredKeys == {PemText(body) : body \in RegisteredBodies}

\* jwt.sign(..., privateKey, RS256) accepts the key: it is the PEM text of a
\* registered key
Signable(key) == key \in RegisteredKeys

\* the local privateKey when createAppJwt comes to jwt.sign (appAuth.ts 7-39)
PrivateKeyToSign(appId, privateKeyBase64) ==
    IF ~Truthy(appId) \/ ~Truthy(privateKeyBase64) THEN Undefined
    ELSE IF \/ ~Includes(privateKeyBase64.s, BeginWord)
            \/ ~Includes(privateKeyBase64.s, PrivateKeyWords)
    THEN Undefined
    ELSE Str(RestoreNewlines(privateKeyBase64.s))

\* the assertion expires ten minutes after `now`
CreateAppJwtLongLived(appId, privateKeyBase64, now) ==
    IF ~Truthy(appId) \/ ~Truthy(privateKeyBase64)
    THEN Threw("GitHub App credentials are not set")
    ELSE LET privateKey == privateKeyBase64.s IN
         IF \/ ~Includes(privateKey, BeginWord)
            \/ ~Includes(privateKey, PrivateKeyWords)
         THEN Threw("Decoded private key does not appear to be a valid PEM format")
         ELSE IF ~Signable(RestoreNewlines(privateKey))
         THEN Threw("Failed to sign JWT")
         ELSE Returned([iat |-> now - 60, exp |-> now + 10 * 60, iss |-> appId])

CreateAppJwt(appId, privateKeyBase64, now) ==
    IF ~Truthy(appId) \/ ~Truthy(privateKeyBase64)
    THEN Threw("GitHub App credentials are not set")
    ELSE LET privateKey == privateKeyBase64.s IN
         IF \/ ~Includes(privateKey, BeginWord)
            \/ ~Includes(privateKey, PrivateKeyWords)
         THEN Threw("Decoded private key does not appear to be a valid PEM format")
         ELSE IF ~Signable(RestoreNewlines(privateKey))
         THEN Threw("Failed to sign JWT")
         ELSE Returned([iat |-> now - 60, exp |-> now + 9 * 60, iss |-> appId])

\* Math.floor(Date.now() / 1000) when the assertion is built
Clock == {1000}

\* replies of the platform to an outbound HTTP call: 2xx with a body,
\* non-2xx, or no reply at all (fetch rejects)
HttpOk(data) == [kind |-> "ok", data |-> data]
HttpError == [kind |-> "non2xx"]
HttpThrow == [kind |-> "throw"]

InstallationTokenValue == <<"g", "h", "s">>
TokenReplies ==
    { HttpOk(Obj([token |-> Str(InstallationTokenValue)])),
      HttpOk(Obj(NoProps)),
      HttpError,
      HttpThrow }

Call(name, bearer) == [call |-> name, bearer |-> bearer]

\* the status of the reply is not looked at: the token is read from the
\* body of a refusal, which has none
InstallationTokenResultUnchecked(jwt, reply) ==
    IF jwt.threw THEN Threw("Failed to create JWT")
    ELSE IF reply.kind = "throw" THEN Threw("fetch failed")
    ELSE IF reply.kind # "ok" THEN Returned(Undefined)
    ELSE Returned(Get(reply.data, "token"))

\* the result of getInstallationToken, given the assertion and the reply
InstallationTokenResult(jwt, reply) ==
    IF jwt.threw THEN Threw("Failed to create JWT")
    ELSE IF reply.kind = "throw" THEN Threw("fetch failed")
    ELSE IF reply.kind # "ok" THEN Threw("Failed to get installation token")
    ELSE Returned(Get(reply.data, "token"))

\* the exchange is tried a second time
TokenCallsRetried(jwt) ==
    IF jwt.threw THEN <<>>
    ELSE <<Call("token", jwt.value), Call("token", jwt.value)>>

\* the calls getInstallationToken issues: one POST that carries the
\* assertion, none when the assertion could not be built
TokenCalls(jwt) ==
    IF jwt.threw THEN <<>> ELSE <<Call("token", jwt.value)>>

(* Step 3 (route.ts 209-233), for the values the environment, the clock    *)
(* and the platform may give                                               *)
CredentialStage(appIds, keys, clock, replies) ==
    /\ pc = "auth"
    /\ Enter("auth")
    /\ \E appId \in appIds, key \in keys, t \in clock, reply \in replies :
        LET jwt == CreateAppJwt(appId, key, t)
            res == InstallationTokenResult(jwt, reply)
        IN  /\ env' = [env EXCEPT !.appId = appId, !.privateKey = key]
            /\ calls' = calls \o TokenCalls(jwt)
            /\ signKey' = PrivateKeyToSign(appId, key)
            /\ IF jwt.threw
               THEN UNCHANGED <<dateNow, tokenReply>>
               ELSE /\ dateNow' = Num(t)
                    /\ tokenReply' = reply
            /\ IF res.threw
               THEN /\ Respond(500, ErrorBody("auth failed"))
                    /\ UNCHANGED token
               ELSE /\ token' = res.value
                    /\ Goto("diff")
    /\ UNCHANGED <<secret, rawBody, signature, event, payload, ctx,
                   diffText, diffStats,
                   needsReview, reviewResponse, commentBody,
                   gatingReply, reviewReply, postReply, diffReply, outside>>

GetInstallationToken ==
    CredentialStage(AppIds, PrivateKeys, Clock, TokenReplies)

(* Texts, character by character *)

\* String.prototype.indexOf, counted from 0; -1 when needle is not in hay
IndexOf(hay, needle) ==
    LET at == {i \in 0..(Len(hay) - Len(needle)) :
                  SubSeq(hay, i + 1, i + Len(needle)) = needle}
    IN  IF at = {} THEN 0 - 1
        ELSE CHOOSE i \in at : \A j \in at : i <= j

\* GetSubstitution of the language, for a match with no capture groups:
\* "$$" stands for "$", "$&" for the matched text, "$`" for the text before
\* the match and "$'" for the text after it; any other "$" stands for itself
RECURSIVE GetSubstitution(_, _, _, _)
GetSubstitution(matched, before, after, replacement) ==
    IF replacement = <<>> THEN <<>>
    ELSE IF Head(replacement) = "$" /\ Len(replacement) >= 2
    THEN LET c == replacement[2]
             rest == SubSeq(replacement, 3, Len(replacement))
         IN  CASE c = "$" ->
                    <<"$">> \o GetSubstitution(matched, before, after, rest)
               [] c = "&" ->
                    matched \o GetSubstitution(matched, before, after, rest)
               [] c = "`" ->
                    before \o GetSubstitution(matched, before, after, rest)
               [] c = "'" ->
                    after \o GetSubstitution(matched, before, after, rest)
               [] OTHER ->
                    <<"$">> \o GetSubstitution(matched, before, after,
                                               Tail(replacement))
    ELSE <<Head(replacement)>>
             \o GetSubstitution(matched, before, after, Tail(replacement))

\* String.prototype.replace with a string pattern and a string replacement:
\* the first occurrence of the pattern is replaced by the substitution
Replace(text, searchString, replaceValue) ==
    LET pos == IndexOf(text, searchString)
        before == SubSeq(text, 1, pos)
        after == SubSeq(text, pos + Len(searchString) + 1, Len(text))
    IN  IF pos < 0 THEN text
        ELSE before
                 \o GetSubstitution(searchString, before, after, replaceValue)
                 \o after

\* the characters after which the flag m lets ^ match (U+2028 and U+2029,
\* the other two line terminators, are in none of the texts)
LineTerminators == {"\n", "\r"}

\* ^ matches only at the start of the text
StartOfText(text, i) == i = 1

\* /^.../m: ^ matches at the start of the text and after a line terminator
StartOfLine(text, i) == i = 1 \/ text[i - 1] \in LineTerminators

\* (text.match(/^marker/gm) || []).length
MatchCount(text, marker) ==
    Cardinality({i \in 1..Len(text) :
                    /\ StartOfLine(text, i)
                    /\ i + Len(marker) - 1 <= Len(text)
                    /\ SubSeq(text, i, i + Len(marker) - 1) = marker})

DiffGitMarker == <<"d", "i", "f", "f", " ", "-", "-", "g", "i", "t", " ">>
HunkMarker == <<"@", "@">>

(* Step 5 (route.ts 270-284): the texts have ASCII characters only, one   *)
(* byte each                                                              *)
DiffStatistics(text) ==
    [diffBytes |-> Len(text),
     fileCount |-> MatchCount(text, DiffGitMarker),
     hunkCount |-> MatchCount(text, HunkMarker)]

(* Step 4 (route.ts 241-268) *)
DiffTexts ==
    { Str(<<>>),
      Str(DiffGitMarker \o <<"a", "\n">> \o HunkMarker
              \o <<"\n", "-", "x", "\n", "+", "y">>) }
DiffReplies == {HttpOk(d) : d \in DiffTexts} \cup {HttpError, HttpThrow}

\* a refused fetch is tried a second time
DiffCallsRetried(tok, reply) ==
    IF reply.kind = "non2xx"
    THEN <<Call("diff", tok), Call("diff", tok)>>
    ELSE <<Call("diff", tok)>>

\* the calls of step 4: one GET, whatever the reply
DiffCalls(tok, reply) == <<Call("diff", tok)>>

\* the handler waits for a second reply that nothing delivers
DiffFetchPending == Goto("diff-wait")

\* a reply that is not ok ends the request (route.ts 257-266)
DiffFetchFailed == Respond(500, ErrorBody("diff fetch failed"))

DiffStage(replies) ==
    /\ pc = "diff"
    /\ Enter("diff")
    /\ \E reply \in replies :
        /\ calls' = calls \o DiffCalls(token, reply)
        /\ diffReply' = reply
        /\ CASE reply.kind = "ok" ->
                /\ diffText' = reply.data
                /\ diffStats' = DiffStatistics(reply.data.s)
                /\ Goto("gating")
             [] reply.kind = "non2xx" ->
                /\ DiffFetchFailed
                /\ UNCHANGED <<diffText, diffStats>>
             [] OTHER ->
                /\ GlobalCatch
                /\ UNCHANGED <<diffText, diffStats>>
    /\ UNCHANGED <<secret, rawBody, signature, event, payload, ctx, token,
                   needsReview, reviewResponse, commentBody, env,
                   gatingReply, reviewReply, postReply, tokenReply, dateNow,
                   signKey, outside>>

FetchDiff == DiffStage(DiffReplies)

----------------------------------------------------------------------------
(* Model output.  A completion text is a sequence of pieces: an opening    *)
(* brace, a closing brace, a member `"key": value` of a JSON object, or a  *)
(* run of other text without braces.                                       *)

LBrace == [piece |-> "{"]
RBrace == [piece |-> "}"]
Prose == [piece |-> "text"]
Member(k, v) == [piece |-> "member", key |-> k, val |-> v]

\* response.match(/\{[\s\S]*\}/): from the first "{" to the last "}" after it;
\* <<>> stands for no match
JsonMatch(text) ==
    LET opens == {i \in 1..Len(text) : text[i] = LBrace}
        first == CHOOSE i \in opens : \A j \in opens : i <= j
        closes == {i \in 1..Len(text) : text[i] = RBrace /\ i > first}
        last == CHOOSE i \in closes : \A j \in closes : j <= i
    IN  IF opens = {} THEN <<>>
        ELSE IF closes = {} THEN <<>>
        ELSE SubSeq(text, first, last)

\* JSON.parse of a matched text throws unless it is one object
ObjectParseThrows(m) ==
    \/ Len(m) < 2
    \/ m[1] # LBrace
    \/ m[Len(m)] # RBrace
    \/ \E i \in 2..(Len(m) - 1) : m[i].piece # "member"

\* JSON.parse of a matched text that is one object (a repeated key keeps
\* its last value)
ObjectParse(m) ==
    LET idx == 2..(Len(m) - 1)
        keys == {m[i].key : i \in idx}
        lastOf(k) == CHOOSE i \in idx :
                        /\ m[i].key = k
                        /\ \A j \in idx : m[j].key = k => j <= i
    IN  Obj([k \in keys |-> m[lastOf(k)].val])

\* what callLLM / callResponsesAPI hands back: it throws (credentials not
\* configured, non-2xx, unparseable body, no completion text) or returns text
LlmThrew == [ok |-> FALSE]
LlmText(text) == [ok |-> TRUE, text |-> text]
LlmResults(texts) == {LlmThrew} \cup {LlmText(t) : t \in texts}

Deployments == {Undefined, Str(<<"d">>)}

----------------------------------------------------------------------------
(* Stage 1: gating (stage1Gating.ts 65-112, route.ts 293-304) *)

GatingTexts ==
    { <<LBrace, Member("review", Bool(FALSE)), RBrace>>,
      <<LBrace, Member("review", Bool(TRUE)), RBrace>>,
      <<LBrace, Member("review", Str(<<"n", "o">>)), RBrace>>,
      <<LBrace, RBrace>>,
      <<Prose>>,
      <<Prose, LBrace, Member("review", Bool(FALSE)), RBrace, Prose>>,
      <<LBrace, Member("review", Bool(FALSE)), RBrace, Prose, LBrace, Prose,
        RBrace>> }

\* output that cannot be read is taken as "no review needed"
GatingParseFailClosed(text) ==
    LET m == JsonMatch(text) IN
    IF m = <<>> \/ ObjectParseThrows(m) THEN Bool(FALSE)
    ELSE LET review == Get(ObjectParse(m), "review") IN
         IF review.t # "boolean" THEN Bool(FALSE) ELSE review

\* the value runGatingModel returns for a completion text
GatingParse(text) ==
    LET m == JsonMatch(text) IN
    IF m = <<>> \/ ObjectParseThrows(m) THEN Bool(TRUE)
    ELSE LET review == Get(ObjectParse(m), "review") IN
         IF review.t # "boolean" THEN Bool(TRUE) ELSE review

\* runGatingModel: Threw when the deployment is not configured
RunGatingModelResult(deploymentName, result) ==
    IF ~Truthy(deploymentName) THEN Threw("AZURE_OPENAI_GATING_DEPLOYMENT not set")
    ELSE IF ~result.ok THEN Returned(Bool(TRUE))
    ELSE Returned(GatingParse(result.text))

\* the fixed reassurance comment (route.ts 312-317, 334-339)
Reassurance == [heading |-> "No major issues detected", blocks |-> <<>>]

\* the handler's catch of a gating failure (route.ts 296-304)
GatingDecision(r) == IF r.threw THEN Bool(TRUE) ELSE r.value

\* the branch is taken on a test for the wrong value
SkipReviewInverted(nr) == Truthy(nr)

\* if (!needsReview) (route.ts 310)
SkipReview(nr) == ~Truthy(nr)

\* GATING_PROMPT (stage1Gating.ts 10-36): the instruction, one piece here
\* for the text of lines 10-32, then "Diff:", a rule, the placeholder and a
\* rule
Placeholder == <<"{", "D", "I", "F", "F", "}">>
PromptHead ==
    <<"You are reviewing a pull request diff. (...)", "\n",
      "D", "i", "f", "f", ":", "\n", "-", "-", "-", "\n">>
PromptTail == <<"\n", "-", "-", "-">>
GATING_PROMPT == PromptHead \o Placeholder \o PromptTail

\* GATING_RESPONSE_FORMAT (stage1Gating.ts 38-53)
GATING_RESPONSE_FORMAT ==
    MkObj([type |-> Str("json_schema"), name |-> Str("gating_review")])

\* runGatingModel 73
GatingPrompt(diffChars) == Replace(GATING_PROMPT, Placeholder, diffChars)

\* callLLM 100-119: the body of the request
RequestBody(deploymentName, input, maxTokens, textFormat) ==
    MkObj([model |-> deploymentName,
           input |-> Arr(<<MkObj([role |-> Str("user"),
                                  content |-> Str(input)])>>),
           max_output_tokens |-> Num(maxTokens),
           reasoning |-> MkObj([effort |-> Str("low")]),
           text |-> IF Truthy(textFormat)
                    THEN MkObj([format |-> textFormat])
                    ELSE Undefined])

\* runGatingModel 80: the call of the gating model
GatingCalls(deploymentName, diffChars) ==
    <<[call |-> "gating", bearer |-> Undefined,
       request |-> RequestBody(deploymentName, GatingPrompt(diffChars), 2000,
                               GATING_RESPONSE_FORMAT)]>>

GatingStage(deployments, results) ==
    /\ pc = "gating"
    /\ Enter("gating")
    /\ \E dep \in deployments, result \in results :
        LET r == RunGatingModelResult(dep, result)
            nr == GatingDecision(r)
        IN  /\ env' = [env EXCEPT !.gatingDeployment = dep]
            /\ IF Truthy(dep)
               THEN /\ calls' = calls \o GatingCalls(dep, diffText.s)
                    /\ gatingReply' = result
               ELSE UNCHANGED <<calls, gatingReply>>
            /\ needsReview' = nr
            /\ IF SkipReview(nr)
               THEN /\ commentBody' = Reassurance
                    /\ Goto("post")
               ELSE /\ UNCHANGED commentBody
                    /\ Goto("review")
    /\ UNCHANGED <<secret, rawBody, signature, event, payload, ctx, token,
                   diffText, diffStats, reviewResponse, reviewReply, postReply,
                   tokenReply, diffReply, dateNow, signKey,
                   outside>>

RunGatingModel == GatingStage(Deployments, LlmResults(GatingTexts))

----------------------------------------------------------------------------
(* Stage 2: review (client.ts 438-499, route.ts 318-365).                  *)
(* A confidence is a number of tenths: Num(9) is 0.9, Num(10) is 1.        *)

Finding(summary, c) ==
    Obj([summary |-> Str(summary), lines |-> Str(<<"+", "y">>),
         failure_mode |-> Str(<<"f", "m">>), confidence |-> Num(c)])

FindingEntries ==
    { Finding(<<"a">>, 9),
      Finding(<<"b">>, 4),
      Finding(<<"c">>, 9),
      Finding(<<"d">>, 11),
      Finding(<<"n">>, 0 - 1),
      Obj([summary |-> Num(1), lines |-> Str(<<"+", "y">>),
           failure_mode |-> Str(<<"f", "m">>), confidence |-> Num(5)]),
      Null }

MaxFindings == 3

FindingArrays ==
    UNION {[1..n -> FindingEntries] : n \in 0..MaxFindings}

ReviewTexts ==
    {<<LBrace, Member("findings", Arr(a)), RBrace>> : a \in FindingArrays}
        \cup
    { <<Prose>>,
      <<LBrace, RBrace>>,
      <<LBrace, Member("findings", Str(<<"n", "o">>)), RBrace>> }

\* the confidence is tested for its type only
ValidFindingNoRange(f) ==
    /\ Get(f, "summary").t = "string"
    /\ Get(f, "lines").t = "string"
    /\ Get(f, "failure_mode").t = "string"
    /\ Get(f, "confidence").t = "number"

\* the test of client.ts 477-484 on one entry that is not null
ValidFinding(f) ==
    /\ Get(f, "summary").t = "string"
    /\ Get(f, "lines").t = "string"
    /\ Get(f, "failure_mode").t = "string"
    /\ Get(f, "confidence").t = "number"
    /\ Get(f, "confidence").n >= 0
    /\ Get(f, "confidence").n <= 10

\* client.ts 485-490: the finding pushed for a valid entry
PushedFinding(f) ==
    [summary |-> Get(f, "summary"), lines |-> Get(f, "lines"),
     failure_mode |-> Get(f, "failure_mode"),
     confidence |-> Get(f, "confidence")]

RECURSIVE ValidFindings(_)
ValidFindings(items) ==
    IF items = <<>> THEN <<>>
    ELSE LET rest == ValidFindings(Tail(items)) IN
         IF ValidFinding(Head(items))
         THEN <<PushedFinding(Head(items))>> \o rest
         ELSE rest

\* the findings runReviewModel returns for a completion text
ReviewParse(text) ==
    LET m == JsonMatch(text) IN
    IF m = <<>> \/ ObjectParseThrows(m) THEN <<>>
    ELSE LET findings == Get(ObjectParse(m), "findings") IN
         IF ~Truthy(findings) \/ findings.t # "array" THEN <<>>
         \* reading a property of a null entry throws: caught at 495-498
         ELSE IF \E i \in 1..Len(findings.items) :
                    GetThrows(findings.items[i])
         THEN <<>>
         ELSE ValidFindings(findings.items)

\* a ReviewResponse object { findings }
ReviewResponse(fs) == [t |-> "object", findings |-> fs]

\* runReviewModel: Threw when the deployment is not configured
RunReviewModelResult(deploymentName, result) ==
    IF ~Truthy(deploymentName) THEN Threw("AZURE_OPENAI_REVIEW_DEPLOYMENT not set")
    ELSE IF ~result.ok THEN Returned(ReviewResponse(<<>>))
    ELSE Returned(ReviewResponse(ReviewParse(result.text)))

\* a finding goes before the findings of its own confidence
RECURSIVE InsertByConfidenceTiesFirst(_, _)
InsertByConfidenceTiesFirst(f, sorted) ==
    IF sorted = <<>> THEN <<f>>
    ELSE IF Head(sorted).confidence.n > f.confidence.n
         THEN <<Head(sorted)>> \o InsertByConfidenceTiesFirst(f, Tail(sorted))
         ELSE <<f>> \o sorted

\* [...findings].sort((a, b) => b.confidence - a.confidence): stable,
\* descending by confidence
RECURSIVE InsertByConfidence(_, _)
InsertByConfidence(f, sorted) ==
    IF sorted = <<>> THEN <<f>>
    ELSE IF Head(sorted).confidence.n >= f.confidence.n
         THEN <<Head(sorted)>> \o InsertByConfidence(f, Tail(sorted))
         ELSE <<f>> \o sorted

\* the findings are rendered in the order received
SortByConfidenceSkipped(fs) == fs

RECURSIVE SortByConfidence(_)
SortByConfidence(fs) ==
    IF fs = <<>> THEN <<>>
    ELSE InsertByConfidence(fs[Len(fs)],
                            SortByConfidence(SubSeq(fs, 1, Len(fs) - 1)))

\* .slice(0, 3)
TopThree(fs) == SubSeq(fs, 1, IF Len(fs) < 3 THEN Len(fs) ELSE 3)

\* one rendered block (route.ts 349-357)
Block(f) ==
    [summary |-> f.summary, failure_mode |-> f.failure_mode, lines |-> f.lines]

\* the report is rendered whatever the number of findings
RenderCommentNoEmptyBranch(findings) ==
    LET top == TopThree(SortByConfidence(findings)) IN
    [heading |-> "Possible bug risk",
     blocks |-> [i \in 1..Len(top) |-> Block(top[i])]]

\* a single finding is not reported
RenderCommentFewerThanTwo(findings) ==
    IF Len(findings) <= 1 THEN Reassurance
    ELSE LET top == TopThree(SortByConfidence(findings)) IN
         [heading |-> "Possible bug risk",
          blocks |-> [i \in 1..Len(top) |-> Block(top[i])]]

\* route.ts 331-364
RenderComment(findings) ==
    IF Len(findings) = 0 THEN Reassurance
    ELSE LET top == TopThree(SortByConfidence(findings)) IN
         [heading |-> "Possible bug risk",
          blocks |-> [i \in 1..Len(top) |-> Block(top[i])]]

\* the handler's catch of a review failure (route.ts 320-329)
ReviewOutcome(r) == IF r.threw THEN ReviewResponse(<<>>) ELSE r.value

\* the review branch of the handler, for the completion texts the model
\* may give
ReviewStage(deployments, results) ==
    /\ pc = "review"
    /\ Enter("review")
    /\ \E dep \in deployments, result \in results :
        LET r == RunReviewModelResult(dep, result)
            rr == ReviewOutcome(r)
        IN  /\ env' = [env EXCEPT !.reviewDeployment = dep]
            /\ IF Truthy(dep)
               THEN /\ calls' = Append(calls, Call("review", Undefined))
                    /\ reviewReply' = result
               ELSE UNCHANGED <<calls, reviewReply>>
            /\ reviewResponse' = rr
            /\ commentBody' = RenderComment(rr.findings)
            /\ Goto("post")
    /\ UNCHANGED <<secret, rawBody, signature, event, payload, ctx, token,
                   diffText, diffStats, needsReview, gatingReply, postReply,
                   tokenReply, diffReply, dateNow, signKey,
                   outside>>

RunReviewModel == ReviewStage(Deployments, LlmResults(ReviewTexts))

----------------------------------------------------------------------------
(* Step 8: post the comment (route.ts 367-387, postComment 492-520) *)

PostReplies == {HttpOk(Obj(NoProps)), HttpError, HttpThrow}

\* a comment is posted only when there is something to report
PostCallsFindingsOnly(tok, body) ==
    IF body = Reassurance THEN <<>>
    ELSE <<[call |-> "post", bearer |-> tok, body |-> body]>>

\* one comment is posted per finding block
PostCallsPerBlock(tok, body) ==
    IF body.blocks = <<>>
    THEN <<[call |-> "post", bearer |-> tok, body |-> body]>>
    ELSE [i \in 1..Len(body.blocks) |->
            [call |-> "post", bearer |-> tok, body |-> body]]

\* the diff is fetched again before the comment is posted
PostCallsWithRefetch(tok, body) ==
    <<Call("diff", tok), [call |-> "post", bearer |-> tok, body |-> body]>>

\* the calls postComment issues
PostCalls(tok, body) == <<[call |-> "post", bearer |-> tok, body |-> body]>>

\* the count is that of the rendered blocks
FindingsCountRendered(nr, rr) ==
    IF Truthy(nr) /\ Truthy(rr)
    THEN (IF Len(rr.findings) < 3 THEN Len(rr.findings) ELSE 3)
    ELSE 0

\* findingsCount of the success response (route.ts 386)
FindingsCount(nr, rr) ==
    IF Truthy(nr) /\ Truthy(rr) THEN Len(rr.findings) ELSE 0

\* reviewResponse.findings is read without a test for null: the TypeError
\* reaches the catch block of the whole handler
SuccessResponseUnguarded(nr, rr) ==
    IF rr = Null
    THEN [status |-> 500, body |-> ErrorBody("Internal server error")]
    ELSE [status |-> 200, body |-> SuccessBody(nr, Len(rr.findings))]

\* the success response (route.ts 383-387)
SuccessResponse(nr, rr) ==
    [status |-> 200, body |-> SuccessBody(nr, FindingsCount(nr, rr))]

\* the status of the reply is not looked at: only a failed request throws
PostResponseUnchecked(reply, nr, rr) ==
    IF reply.kind = "throw"
    THEN [status |-> 500, body |-> ErrorBody("comment failed")]
    ELSE SuccessResponse(nr, rr)

\* postComment throws unless the reply is 2xx (route.ts 514-519); the
\* handler answers 500 when it throws (route.ts 370-380)
PostResponse(reply, nr, rr) ==
    IF reply.kind = "ok" THEN SuccessResponse(nr, rr)
    ELSE [status |-> 500, body |-> ErrorBody("comment failed")]

PostStage(replies) ==
    /\ pc = "post"
    /\ Enter("post")
    /\ calls' = calls \o PostCalls(token, commentBody)
    /\ \E reply \in replies :
        LET r == PostResponse(reply, needsReview, reviewResponse)
        IN  /\ postReply' = reply
            /\ Respond(r.status, r.body)
    /\ UNCHANGED <<secret, rawBody, signature, event, payload, ctx, token,
                   diffText, diffStats, needsReview, reviewResponse, commentBody, env,
                   gatingReply, reviewReply, tokenReply, diffReply, dateNow,
                   signKey, outside>>

PostComment == PostStage(PostReplies)

----------------------------------------------------------------------------
Next ==
    \/ VerifySignature
    \/ ParsePayload
    \/ FilterEvent
    \/ CheckInvocation
    \/ CheckPullRequest
    \/ ExtractContext
    \/ GetInstallationToken
    \/ FetchDiff
    \/ RunGatingModel
    \/ RunReviewModel
    \/ PostComment

Spec == Init /\ [][Next]_vars

----------------------------------------------------------------------------
(* One well-formed invocation whose review model reports many findings.    *)
(* Every entry passes validation, so that more findings are returned than  *)
(* the comment renders.                                                    *)

ReportedEntries ==
    { Finding(<<"a">>, 9),
      Finding(<<"b">>, 4),
      Finding(<<"c">>, 9),
      Finding(<<"e">>, 9),
      Finding(<<"f">>, 10) }

MaxReported == 4

ReportedArrays ==
    UNION {[1..n -> ReportedEntries] : n \in 0..MaxReported}

ReportedTexts ==
    {<<LBrace, Member("findings", Arr(a)), RBrace>> : a \in ReportedArrays}

\* a JSON body that passes the filter and holds the four required values
WellFormedInvocation(body) ==
    /\ ~JSONParseThrows(body)
    /\ FilterOutcome(Str(IssueComment), JSONParse(body)) = "pass"
    /\ InvocationOutcome(JSONParse(body)) = "pass"
    /\ IsPullRequest(JSONParse(body))
    /\ ContextComplete(Context(JSONParse(body)))

InvocationBody ==
    CHOOSE b \in RawBodies :
        /\ WellFormedInvocation(b)
        /\ \A c \in RawBodies : WellFormedInvocation(c) => b <= c

InitInvocation ==
    /\ Init
    /\ secret = Str(SenderKey)
    /\ rawBody = InvocationBody
    /\ signature = Str(ExpectedSignature(SenderKey, rawBody))
    /\ event = Str(IssueComment)

RunReviewModelReported ==
    ReviewStage(Deployments, LlmResults(ReportedTexts))

NextInvocation ==
    \/ VerifySignature
    \/ ParsePayload
    \/ FilterEvent
    \/ CheckInvocation
    \/ CheckPullRequest
    \/ ExtractContext
    \/ GetInstallationToken
    \/ FetchDiff
    \/ RunGatingModel
    \/ RunReviewModelReported
    \/ PostComment

SpecInvocation == InitInvocation /\ [][NextInvocation]_vars

----------------------------------------------------------------------------
(* One well-formed invocation up to its credential stage, over a range of  *)
(* clock readings.                                                         *)

MaxClock == 40

\* Math.floor(Date.now() / 1000): seconds since the epoch
ClockReadings == 0..MaxClock

GetInstallationTokenAnyTime ==
    CredentialStage(AppIds, PrivateKeys, ClockReadings, TokenReplies)

NextCredential ==
    \/ VerifySignature
    \/ ParsePayload
    \/ FilterEvent
    \/ CheckInvocation
    \/ CheckPullRequest
    \/ ExtractContext
    \/ GetInstallationTokenAnyTime

SpecCredential == InitInvocation /\ [][NextCredential]_vars

----------------------------------------------------------------------------
(* One well-formed invocation up to its credential stage, over the keys    *)
(* that storage may hold.                                                  *)

\* body with the character c put in after its first k characters
Spaced(body, k, c) ==
    SubSeq(body, 1, k) \o <<c>> \o SubSeq(body, k + 1, Len(body))

\* key bodies as stored: on one line, with or without a white space
\* character in them
StoredBodies ==
    {KeyBody(n) : n \in 1..MaxBodyLength}
        \cup UNION { { Spaced(KeyBody(n), k, c) :
                         k \in {0, 1, LineLength, n} \cap 0..n,
                         c \in {" ", "\t", "\r"} } :
                       n \in 0..MaxBodyLength }

StoredKeys ==
    {Str(Stripped(body)) : body \in StoredBodies}
        \cup {Str(Stripped(<<>>)), Str(PemWrapped), Str(NotPem)}

GetInstallationTokenAnyKey ==
    CredentialStage(AppIds, StoredKeys, Clock, TokenReplies)

NextKey ==
    \/ VerifySignature
    \/ ParsePayload
    \/ FilterEvent
    \/ CheckInvocation
    \/ CheckPullRequest
    \/ ExtractContext
    \/ GetInstallationTokenAnyKey

SpecKey == InitInvocation /\ [][NextKey]_vars

----------------------------------------------------------------------------
(* Two invocations in flight in one process.  The handler keeps everything *)
(* in variables declared inside POST, so each invocation has its own copy  *)
(* of them; the process runs one invocation at a time and may turn to the  *)
(* other one whenever the running one waits.                               *)

\* the variables of the running invocation
Locals ==
    [rawBody |-> rawBody, signature |-> signature, event |-> event,
     pc |-> pc, payload |-> payload, ctx |-> ctx, token |-> token,
     diffText |-> diffText, diffStats |-> diffStats,
     needsReview |-> needsReview,
     reviewResponse |-> reviewResponse, commentBody |-> commentBody,
     response |-> response, env |-> env, gatingReply |-> gatingReply,
     reviewReply |-> reviewReply, postReply |-> postReply,
     tokenReply |-> tokenReply, diffReply |-> diffReply,
     dateNow |-> dateNow, signKey |-> signKey, calls |-> calls,
     steps |-> steps]

\* the variables of an invocation that has read its request and nothing else
Arrived(body, sig, ev) ==
    [rawBody |-> body, signature |-> sig, event |-> ev,
     pc |-> "verify", payload |-> Undefined, ctx |-> NoCtx,
     token |-> Undefined, diffText |-> Undefined,
     diffStats |-> Undefined, needsReview |-> Undefined,
     reviewResponse |-> Null, commentBody |-> Undefined,
     response |-> NoResponse, env |-> NoEnv, gatingReply |-> Undefined,
     reviewReply |-> Undefined, postReply |-> Undefined,
     tokenReply |-> Undefined, diffReply |-> Undefined,
     dateNow |-> Undefined, signKey |-> Undefined, calls |-> <<>>,
     steps |-> {}]

\* a second well-formed invocation, with another comment
OtherInvocationBody ==
    CHOOSE b \in RawBodies :
        /\ WellFormedInvocation(b)
        /\ \A c \in RawBodies : WellFormedInvocation(c) => c <= b

InitProcess ==
    /\ secret = Str(SenderKey)
    /\ rawBody = InvocationBody
    /\ signature = Str(ExpectedSignature(SenderKey, rawBody))
    /\ event = Str(IssueComment)
    /\ pc = "verify"
    /\ payload = Undefined
    /\ ctx = NoCtx
    /\ token = Undefined
    /\ diffText = Undefined
    /\ diffStats = Undefined
    /\ needsReview = Undefined
    /\ reviewResponse = Null
    /\ commentBody = Undefined
    /\ response = NoResponse
    /\ env = NoEnv
    /\ gatingReply = Undefined
    /\ reviewReply = Undefined
    /\ postReply = Undefined
    /\ tokenReply = Undefined
    /\ diffReply = Undefined
    /\ dateNow = Undefined
    /\ signKey = Undefined
    /\ parked = Arrived(OtherInvocationBody,
                        Str(ExpectedSignature(SenderKey, OtherInvocationBody)),
                        Str(IssueComment))
    /\ apiData = Undefined
    /\ completion = Undefined
    /\ cachedClient = Null
    /\ clientEnv = NoClientEnv
    /\ clientCalls = <<>>
    /\ calls = <<>>
    /\ steps = {}

\* the token is a variable of the module, shared by the invocations
ResumeTokenShared(own, current) == current

\* `let token` is declared inside POST (route.ts 213): an invocation that
\* resumes finds its own token
ResumeToken(own, current) == own

\* the process turns to the other invocation
SwitchInvocation ==
    /\ parked # Null
    /\ parked' = Locals
    /\ rawBody' = parked.rawBody
    /\ signature' = parked.signature
    /\ event' = parked.event
    /\ pc' = parked.pc
    /\ payload' = parked.payload
    /\ ctx' = parked.ctx
    /\ token' = ResumeToken(parked.token, token)
    /\ diffText' = parked.diffText
    /\ diffStats' = parked.diffStats
    /\ needsReview' = parked.needsReview
    /\ reviewResponse' = parked.reviewResponse
    /\ commentBody' = parked.commentBody
    /\ response' = parked.response
    /\ env' = parked.env
    /\ gatingReply' = parked.gatingReply
    /\ reviewReply' = parked.reviewReply
    /\ postReply' = parked.postReply
    /\ tokenReply' = parked.tokenReply
    /\ diffReply' = parked.diffReply
    /\ dateNow' = parked.dateNow
    /\ signKey' = parked.signKey
    /\ calls' = parked.calls
    /\ steps' = parked.steps
    /\ UNCHANGED <<secret, apiData, completion, client>>

OtherTokenValue == <<"g", "h", "t">>

ProcessClock == {1000, 2000}
ProcessTokenReplies ==
    { HttpOk(Obj([token |-> Str(InstallationTokenValue)])),
      HttpOk(Obj([token |-> Str(OtherTokenValue)])),
      HttpError }
ProcessDiffReplies == {HttpOk(d) : d \in DiffTexts} \cup {HttpError}
ProcessDeployments == {Str(<<"d">>)}
ProcessGatingResults ==
    { LlmText(<<LBrace, Member("review", Bool(FALSE)), RBrace>>),
      LlmText(<<LBrace, Member("review", Bool(TRUE)), RBrace>>) }
ProcessReviewResults ==
    { LlmText(<<LBrace, Member("findings", Arr(<<>>)), RBrace>>),
      LlmText(<<LBrace, Member("findings", Arr(<<Finding(<<"a">>, 9)>>)),
                RBrace>>) }
ProcessPostReplies == {HttpOk(Obj(NoProps)), HttpError}

GetInstallationTokenInProcess ==
    CredentialStage(AppIds, {Str(PemWrapped)}, ProcessClock,
                    ProcessTokenReplies)
FetchDiffInProcess == DiffStage(ProcessDiffReplies)
RunGatingModelInProcess ==
    GatingStage(ProcessDeployments, ProcessGatingResults)
RunReviewModelInProcess ==
    ReviewStage(ProcessDeployments, ProcessReviewResults)
PostCommentInProcess == PostStage(ProcessPostReplies)

NextProcess ==
    \/ VerifySignature
    \/ ParsePayload
    \/ FilterEvent
    \/ CheckInvocation
    \/ CheckPullRequest
    \/ ExtractContext
    \/ GetInstallationTokenInProcess
    \/ FetchDiffInProcess
    \/ RunGatingModelInProcess
    \/ RunReviewModelInProcess
    \/ PostCommentInProcess
    \/ SwitchInvocation

SpecProcess == InitProcess /\ [][NextProcess]_vars

----------------------------------------------------------------------------
(* Properties of the handler *)

Done == pc = "done"

PostCount == Cardinality({i \in 1..Len(calls) : calls[i].call = "post"})

Answered(status, body) == response = [status |-> status, body |-> body]

\* the signature header is "sha256=" + HMAC-SHA256(secret, raw body)
SignatureValid ==
    /\ Truthy(secret)
    /\ signature = Str(ExpectedSignature(secret.s, rawBody))

\* the body is JSON
BodyParses == ~JSONParseThrows(rawBody)

\* a comment body that holds the invocation token
HasInvocationToken(b) ==
    \/ b.t = "string" /\ Includes(b.s, InvocationToken)
    \/ /\ b.t = "array"
       /\ \E i \in 1..Len(b.items) :
            /\ b.items[i].t = "string"
            /\ Includes(b.items[i].s, InvocationToken)

\* the four conditions of the Event Filter, on the parsed body
EventTypeOk == event = Str(IssueComment)
ActionOk == OptGet(JSONParse(rawBody), "action") = Str(Created)
TokenOk ==
    HasInvocationToken(OptGet(OptGet(JSONParse(rawBody), "comment"), "body"))
MarkerOk ==
    OptGet(OptGet(JSONParse(rawBody), "issue"), "pull_request") # Undefined

PassesEventFilter ==
    /\ SignatureValid
    /\ BodyParses
    /\ EventTypeOk /\ ActionOk /\ TokenOk /\ MarkerOk

\* one of installation id, owner, repo, issue number is not in the payload
RequiredFieldMissing ==
    LET c == Context(JSONParse(rawBody)) IN
    \E f \in DOMAIN NoCtx : c[f] = Undefined

\* C1 (as claimed): every invocation that passes the Event Filter has made
\* exactly one comment-post call by the time the handler responds.
C1_ExactlyOnePostPastFilter ==
    (Done /\ PassesEventFilter) => PostCount = 1

\* C1 (amended): an invocation that passes the Event Filter has made exactly
\* one comment-post call by the time the handler responds when the required
\* fields were present and the token exchange and the diff fetch succeeded,
\* on the reassurance branch and on the findings branch alike, and none
\* otherwise.
C1_OnePostIffDiffFetched ==
    (Done /\ "context" \in steps) =>
        PostCount = (IF diffText # Undefined THEN 1 ELSE 0)

C1_Witness ==
    /\ Done /\ PassesEventFilter /\ PostCount = 1
    /\ commentBody # Undefined /\ commentBody # Reassurance

\* C2: at most one comment-post call in every execution, no retry after a
\* failed post, and exactly one call in every execution that reached the
\* posting stage.
C2_AtMostOnePost ==
    /\ PostCount <= 1
    /\ pc = "post" => PostCount = 0
    /\ (Done /\ commentBody # Undefined) => PostCount = 1

C2_Witness ==
    /\ Done /\ PostCount = 1
    /\ Answered(500, ErrorBody("comment failed"))

\* C3 (as claimed): with the secret configured, a signature header that is
\* present and differs from the expected one is answered 401, whatever its
\* length.
C3_MismatchIs401 ==
    (/\ Done
     /\ Truthy(secret)
     /\ signature # Null
     /\ signature # Str(ExpectedSignature(secret.s, rawBody)))
        => response.status = 401

\* C4: with the secret configured, a request without signature header is
\* answered 401 and no downstream call is made.
C4_MissingSignatureIs401 ==
    (Truthy(secret) /\ signature = Null) =>
        /\ calls = <<>>
        /\ steps \subseteq {"verify"}
        /\ Done => response.status = 401

C4_Witness ==
    /\ Done /\ Truthy(secret) /\ signature = Null
    /\ response.status = 401

\* C5: whenever payload parsing, event filtering, token exchange, diff fetch,
\* a model call or a comment post has happened for a request, the request's
\* signature header equals the HMAC over its exact raw body.
C5_PastVerifierOnlyIfSigned ==
    (steps \ {"verify"} # {} \/ calls # <<>> \/ payload # Undefined)
        => SignatureValid

C5_Witness ==
    /\ Done /\ PostCount = 1 /\ "parse" \in steps /\ SignatureValid

\* C6: without a configured secret every request is answered 500 "Server
\* misconfigured", whatever its signature, event type and body, and nothing
\* past the verifier runs.
C6_MissingSecretIs500 ==
    ~Truthy(secret) =>
        /\ calls = <<>>
        /\ steps \subseteq {"verify"}
        /\ Done => Answered(500, ErrorBody("Server misconfigured"))

C6_Witness ==
    /\ Done /\ secret = Undefined
    /\ signature = Str(ExpectedSignature(SenderKey, rawBody))
    /\ Answered(500, ErrorBody("Server misconfigured"))

\* C7 (as claimed): a signature-valid request whose body is any JSON value is
\* answered {ignored:true} with status 200 when the event type is not
\* issue_comment or the payload's action is not "created".
C7_NotCreatedIsIgnored ==
    (Done /\ SignatureValid /\ BodyParses /\ (~EventTypeOk \/ ~ActionOk))
        => Answered(200, IgnoredBody)

\* C8 (as claimed): a signature-valid issue_comment/created request whose
\* comment.body is absent or any value without the invocation token is
\* answered {ignored:true} with status 200.
C8_NoTokenIsIgnored ==
    (Done /\ SignatureValid /\ BodyParses /\ EventTypeOk /\ ActionOk
          /\ ~TokenOk)
        => Answered(200, IgnoredBody)

\* C9 (as claimed): a request that fails any of the four Event Filter
\* conditions ends with the ignored response, no outbound call and no error
\* status.
C9_FilteredIsIgnoredWithoutCalls ==
    (Done /\ SignatureValid /\ BodyParses
          /\ ~(EventTypeOk /\ ActionOk /\ TokenOk /\ MarkerOk))
        => (Answered(200, IgnoredBody) /\ calls = <<>>)

\* C10: a request that passes the Event Filter and lacks one of installation
\* id, owner, repo, issue number is answered 400, and no downstream call is
\* attempted.
C10_MissingFieldIs400 ==
    ("context" \in steps /\ RequiredFieldMissing) =>
        /\ calls = <<>>
        /\ steps \cap {"auth", "diff", "gating", "review", "post"} = {}
        /\ Done => response.status = 400

C10_Witness ==
    /\ Done /\ "context" \in steps /\ RequiredFieldMissing
    /\ OptGet(Get(payload, "issue"), "number") = Undefined
    /\ response.status = 400

----------------------------------------------------------------------------
(* The gating stage fails open *)

GatingRan == "gating" \in steps

\* AZURE_OPENAI_GATING_DEPLOYMENT is not set
GatingUnconfigured == GatingRan /\ ~Truthy(env.gatingDeployment)

\* the model call failed, or gave no completion text
GatingUpstreamError ==
    GatingRan /\ Truthy(env.gatingDeployment) /\ gatingReply = LlmThrew

GatingAnswered ==
    GatingRan /\ Truthy(env.gatingDeployment) /\ gatingReply # LlmThrew

\* the completion text holds no JSON object that parses
GatingUnparseable ==
    /\ GatingAnswered
    /\ \/ JsonMatch(gatingReply.text) = <<>>
       \/ ObjectParseThrows(JsonMatch(gatingReply.text))

\* the "review" field of the parsed gating output
GatingReviewField == Get(ObjectParse(JsonMatch(gatingReply.text)), "review")

GatingNotBoolean ==
    GatingAnswered /\ ~GatingUnparseable /\ GatingReviewField.t # "boolean"

GatingFailed ==
    \/ GatingUnconfigured
    \/ GatingUpstreamError
    \/ GatingUnparseable
    \/ GatingNotBoolean

GatingSaidNo ==
    GatingAnswered /\ ~GatingUnparseable /\ GatingReviewField = Bool(FALSE)

ReviewRan == "review" \in steps

ReviewSkipped == pc \in {"post", "done"} /\ GatingRan /\ ~ReviewRan

\* C11: whenever the gating stage fails (no deployment configured, upstream
\* error or no completion text, output that does not parse, or a "review"
\* field that is not a boolean), needsReview is true and the review stage is
\* the next stage run; the review stage is skipped only when the gating
\* output parsed with review equal to the boolean false.
C11_GatingFailsOpen ==
    /\ GatingFailed =>
          /\ needsReview = Bool(TRUE)
          /\ pc = "review" \/ ReviewRan
    /\ ReviewSkipped => GatingSaidNo

\* the gating text is a refusal followed by prose that holds braces: the
\* greedy match does not parse, and the review stage ran
C11_Witness ==
    /\ Done
    /\ GatingUnparseable
    /\ JsonMatch(gatingReply.text) # <<>>
    /\ ReviewRan
    /\ needsReview = Bool(TRUE)

----------------------------------------------------------------------------
(* The review stage fails to "no findings" *)

\* AZURE_OPENAI_REVIEW_DEPLOYMENT is not set
ReviewUnconfigured == ReviewRan /\ ~Truthy(env.reviewDeployment)

ReviewUpstreamError ==
    ReviewRan /\ Truthy(env.reviewDeployment) /\ reviewReply = LlmThrew

ReviewAnswered ==
    ReviewRan /\ Truthy(env.reviewDeployment) /\ reviewReply # LlmThrew

ReviewUnparseable ==
    /\ ReviewAnswered
    /\ \/ JsonMatch(reviewReply.text) = <<>>
       \/ ObjectParseThrows(JsonMatch(reviewReply.text))

\* the "findings" field of the parsed review output
ReviewFindingsField ==
    Get(ObjectParse(JsonMatch(reviewReply.text)), "findings")

ReviewNoFindingsArray ==
    ReviewAnswered /\ ~ReviewUnparseable /\ ReviewFindingsField.t # "array"

ReviewFailed ==
    \/ ReviewUnconfigured
    \/ ReviewUpstreamError
    \/ ReviewUnparseable
    \/ ReviewNoFindingsArray

\* the comment-post calls issued so far
PostedBodies == {calls[i].body : i \in {j \in 1..Len(calls) : calls[j].call = "post"}}

\* C12: whenever the review stage fails (no deployment configured, upstream
\* error, output that does not parse, or output without a findings array),
\* the result is zero findings, the comment built and posted is the
\* reassurance comment, and the only error the handler can still answer is
\* that of a failed comment post.
C12_ReviewFailureIsNoFindings ==
    ReviewFailed =>
        /\ reviewResponse = ReviewResponse(<<>>)
        /\ commentBody = Reassurance
        /\ pc \in {"post", "done"}
        /\ Done =>
              /\ PostedBodies = {Reassurance}
              /\ postReply.kind = "ok" =>
                    response = [status |-> 200,
                                body |-> SuccessBody(Bool(TRUE), 0)]
              /\ response.status = 500 =>
                    /\ postReply.kind # "ok"
                    /\ response.body = ErrorBody("comment failed")

\* the review model answered with an object that has no findings array,
\* and the handler answered 200
C12_Witness ==
    /\ Done
    /\ ReviewNoFindingsArray
    /\ response.status = 200
    /\ PostedBodies = {Reassurance}

----------------------------------------------------------------------------
(* No outcome of the model calls is an error response *)

TokenExchanged == token # Undefined
DiffFetched == diffText # Undefined
PostRan == "post" \in steps
PostSucceeded == PostRan /\ postReply.kind = "ok"

\* C13: when the token exchange, the diff fetch and the comment post all
\* succeed, the handler answers 200 with success:true whatever the two
\* model calls did; once the diff is fetched, the only error response left
\* is that of a failed comment post.
C13_ModelOutcomesNeverFail ==
    /\ (Done /\ TokenExchanged /\ DiffFetched /\ PostSucceeded) =>
          /\ response.status = 200
          /\ response.body.kind = "success"
    /\ (Done /\ DiffFetched /\ response.body.kind # "success") =>
          /\ PostRan
          /\ postReply.kind # "ok"
          /\ response = [status |-> 500, body |-> ErrorBody("comment failed")]

\* both model calls failed upstream and the handler answered success
C13_Witness ==
    /\ Done
    /\ GatingUpstreamError
    /\ ReviewUpstreamError
    /\ PostSucceeded
    /\ response.status = 200
    /\ response.body.kind = "success"

----------------------------------------------------------------------------
(* The findings report *)

\* the findings that passed validation in the review stage
ValidatedFindings == IF ReviewRan THEN reviewResponse.findings ELSE <<>>

Min(a, b) == IF a < b THEN a ELSE b

\* `blocks` renders k findings of fs, picked by idx, most confident first,
\* and no finding left out is more confident than one rendered
RendersTop(blocks, fs, idx) ==
    LET k == Len(blocks)
        n == Len(fs)
        picked == {idx[i] : i \in 1..k}
    IN  /\ \A i, j \in 1..k : idx[i] = idx[j] => i = j
        /\ \A i \in 1..k : blocks[i] = Block(fs[idx[i]])
        /\ \A i \in 1..(k - 1) :
              fs[idx[i]].confidence.n >= fs[idx[i + 1]].confidence.n
        /\ \A j \in (1..n) \ picked : \A i \in 1..k :
              fs[j].confidence.n <= fs[idx[i]].confidence.n

\* C14: when n >= 1 findings passed validation, the posted comment holds
\* exactly min(3, n) finding blocks, in non-increasing order of confidence,
\* and every finding left out has a confidence less than or equal to that
\* of every finding rendered.
C14_TopThreeByConfidence ==
    \A body \in PostedBodies :
        LET fs == ValidatedFindings
            n == Len(fs)
        IN  n >= 1 =>
              /\ Len(body.blocks) = Min(3, n)
              /\ \E idx \in [1..Min(3, n) -> 1..n] :
                    RendersTop(body.blocks, fs, idx)

\* four findings passed validation, the least confident one was received
\* first and the most confident one last, and three blocks were posted
C14_Witness ==
    /\ Done
    /\ Len(ValidatedFindings) = 4
    /\ ValidatedFindings[1].confidence = Num(4)
    /\ ValidatedFindings[4].confidence = Num(10)
    /\ \E body \in PostedBodies : Len(body.blocks) = 3

----------------------------------------------------------------------------
(* Validation of the findings *)

\* a returned finding has three strings and a confidence within [0, 1]
WellTyped(f) ==
    /\ f.summary.t = "string"
    /\ f.lines.t = "string"
    /\ f.failure_mode.t = "string"
    /\ f.confidence.t = "number"
    /\ f.confidence.n >= 0
    /\ f.confidence.n <= 10

\* the entries of the findings array the review model gave
ReviewEntries ==
    IF ReviewAnswered /\ ~ReviewUnparseable /\ ~ReviewNoFindingsArray
    THEN ReviewFindingsField.items
    ELSE <<>>

WellTypedEntry(e) == e.t = "object" /\ WellTyped(PushedFinding(e))

WellTypedEntryCount ==
    Cardinality({i \in 1..Len(ReviewEntries) : WellTypedEntry(ReviewEntries[i])})

\* C15: every finding in the result of runReviewModel has a string summary,
\* lines and failure_mode and a numeric confidence within [0, 1]; every
\* block of a posted comment renders such a finding, and findingsCount
\* counts no entry that is not one.
C15_OnlyWellTypedFindings ==
    /\ \A i \in 1..Len(ValidatedFindings) : WellTyped(ValidatedFindings[i])
    /\ \A body \in PostedBodies : \A i \in 1..Len(body.blocks) :
          \E j \in 1..Len(ValidatedFindings) :
              body.blocks[i] = Block(ValidatedFindings[j])
    /\ (Done /\ response.body.kind = "success") =>
          response.body.findingsCount <= WellTypedEntryCount

\* the model gave a finding with confidence 1.1, one with confidence -0.1
\* and a valid one; one finding was returned, rendered and counted
C15_Witness ==
    /\ Done
    /\ \E i \in 1..Len(ReviewEntries) :
          ReviewEntries[i] = Finding(<<"d">>, 11)
    /\ \E i \in 1..Len(ReviewEntries) :
          ReviewEntries[i] = Finding(<<"n">>, 0 - 1)
    /\ Len(ValidatedFindings) = 1
    /\ response.body.kind = "success"
    /\ response.body.findingsCount = 1

\* the well-typed entries of the model's array, in the order received
KeptEntries ==
    LET kept == SelectSeq(ReviewEntries, WellTypedEntry)
    IN  [i \in 1..Len(kept) |-> PushedFinding(kept[i])]

\* C16 (as claimed): an entry of the findings array that fails validation,
\* whatever it is, is dropped on its own: the result of runReviewModel is
\* the valid entries of the array, in the order received.
C16_InvalidEntriesDroppedAlone ==
    (ReviewAnswered /\ ~ReviewUnparseable /\ ~ReviewNoFindingsArray) =>
        ValidatedFindings = KeptEntries

----------------------------------------------------------------------------
(* The gating stage says no review is needed *)

GatingReturnedFalse == GatingRan /\ needsReview = Bool(FALSE)

ReviewModelCalled == \E i \in 1..Len(calls) : calls[i].call = "review"

\* C17 (as claimed): when the gating stage returns review=false, the review
\* model is never called, the posted comment is the reassurance text and
\* the response is {success:true, needsReview:false, findingsCount:0}.
C17_GatingNoAnswersSuccess ==
    (Done /\ GatingReturnedFalse) =>
        /\ ~ReviewRan
        /\ ~ReviewModelCalled
        /\ PostedBodies = {Reassurance}
        /\ response = [status |-> 200, body |-> SuccessBody(Bool(FALSE), 0)]

\* C17 (amended): when the gating stage returns review=false, the review
\* model is never called and the comment posted is the reassurance text;
\* the response is {success:true, needsReview:false, findingsCount:0} when
\* the comment post succeeds, and 500 "comment failed" when it does not.
C17_GatingNoSkipsReview ==
    GatingReturnedFalse =>
        /\ ~ReviewRan
        /\ ~ReviewModelCalled
        /\ commentBody = Reassurance
        /\ Done =>
              /\ PostedBodies = {Reassurance}
              /\ response =
                    IF postReply.kind = "ok"
                    THEN [status |-> 200, body |-> SuccessBody(Bool(FALSE), 0)]
                    ELSE [status |-> 500, body |-> ErrorBody("comment failed")]

\* the gating output was a refusal wrapped in prose; the reassurance was
\* posted and the handler answered success
C17_Witness ==
    /\ Done
    /\ GatingReturnedFalse
    /\ gatingReply.text[1] = Prose
    /\ PostSucceeded
    /\ PostedBodies = {Reassurance}
    /\ response = [status |-> 200, body |-> SuccessBody(Bool(FALSE), 0)]

----------------------------------------------------------------------------
(* Which comment is posted *)

\* the pipeline ends with zero validated findings: gating said no, the
\* review stage failed, or it returned none
NoValidatedFindings ==
    \/ GatingReturnedFalse
    \/ ReviewFailed
    \/ ReviewRan /\ reviewResponse.findings = <<>>

\* C18: the posted comment is the reassurance message if and only if the
\* pipeline ends with zero validated findings; otherwise it is the findings
\* report under the "Possible bug risk" heading.
C18_ReassuranceIffNoFindings ==
    \A body \in PostedBodies :
        /\ body = Reassurance <=> NoValidatedFindings
        /\ body = Reassurance <=> Len(ValidatedFindings) = 0
        /\ body # Reassurance =>
              /\ body.heading = "Possible bug risk"
              /\ body.blocks # <<>>

\* one finding passed validation and the findings report was posted
C18_Witness ==
    /\ Done
    /\ Len(ValidatedFindings) = 1
    /\ ~NoValidatedFindings
    /\ \E body \in PostedBodies :
          /\ body.heading = "Possible bug risk"
          /\ Len(body.blocks) = 1

----------------------------------------------------------------------------
(* The success response *)

Succeeded == Done /\ response.status = 200 /\ response.body.kind = "success"

\* C19: on a successful invocation with needsReview true, findingsCount is
\* the number of findings that passed validation in the review stage, also
\* when the comment renders fewer blocks than that.
C19_CountIsValidatedCount ==
    (Succeeded /\ needsReview = Bool(TRUE)) =>
        /\ response.body.needsReview = Bool(TRUE)
        /\ response.body.findingsCount = Len(ValidatedFindings)

\* four findings passed validation: three blocks were rendered and
\* findingsCount is 4
C19_Witness ==
    /\ Succeeded
    /\ needsReview = Bool(TRUE)
    /\ Len(ValidatedFindings) = 4
    /\ response.body.findingsCount = 4
    /\ \A body \in PostedBodies : Len(body.blocks) = 3

----------------------------------------------------------------------------
(* A failed comment post *)

PostRejected == PostRan /\ postReply = HttpError

\* C20: if the comment-creation call returns a non-2xx status, the handler
\* answers 500 with error "comment failed" and never success:true; a
\* success:true response comes only after a comment post that returned 2xx.
C20_FailedPostIs500 ==
    /\ (Done /\ PostRejected) =>
          response = [status |-> 500, body |-> ErrorBody("comment failed")]
    /\ response.body.kind = "success" =>
          /\ PostCount = 1
          /\ PostSucceeded

\* the findings report was refused by the platform
C20_Witness ==
    /\ Done
    /\ PostRejected
    /\ Len(ValidatedFindings) > 0
    /\ PostCount = 1
    /\ response = [status |-> 500, body |-> ErrorBody("comment failed")]

----------------------------------------------------------------------------
(* Failures before the review pipeline *)

CredentialStageRan == "auth" \in steps

\* GITHUB_APP_ID or GITHUB_PRIVATE_KEY_BASE64 is not set
CredentialsAbsent ==
    CredentialStageRan /\ (~Truthy(env.appId) \/ ~Truthy(env.privateKey))

\* the decoded key has no "BEGIN" or no "PRIVATE KEY" marker
KeyLacksMarkers ==
    /\ CredentialStageRan /\ ~CredentialsAbsent
    /\ \/ ~Includes(env.privateKey.s, BeginWord)
       \/ ~Includes(env.privateKey.s, PrivateKeyWords)

\* the key has its markers but cannot sign
SigningFailed ==
    /\ CredentialStageRan /\ signKey # Undefined
    /\ ~Signable(signKey.s)

TokenExchangeRefused == CredentialStageRan /\ tokenReply = HttpError

CredentialFailed ==
    \/ CredentialsAbsent
    \/ KeyLacksMarkers
    \/ SigningFailed
    \/ TokenExchangeRefused

\* the names of the outbound calls issued so far
CallNames == {calls[i].call : i \in 1..Len(calls)}

\* C21: if obtaining the installation credential fails (application
\* identifier or key absent, key without its markers, signing failure, or
\* refused token exchange), the handler answers 500 and halts: no diff
\* fetch, no model call and no comment post is made.
C21_CredentialFailureHalts ==
    CredentialFailed =>
        /\ Done
        /\ response = [status |-> 500, body |-> ErrorBody("auth failed")]
        /\ CallNames \subseteq {"token"}
        /\ steps \cap {"diff", "gating", "review", "post"} = {}
        /\ token = Undefined

\* the platform refused the exchange of a well-formed assertion
C21_Witness ==
    /\ Done
    /\ TokenExchangeRefused
    /\ CallNames = {"token"}
    /\ response.status = 500

DiffStageRan == "diff" \in steps

DiffRefused == DiffStageRan /\ diffReply = HttpError

\* how many calls of one name were issued
CallCount(name) == Cardinality({i \in 1..Len(calls) : calls[i].call = name})

\* C22: if the diff fetch returns a non-2xx status, the handler answers 500,
\* the fetch was issued once only, and no model stage is run and no comment
\* posted.
C22_DiffFailureHalts ==
    DiffRefused =>
        /\ Done
        /\ response = [status |-> 500, body |-> ErrorBody("diff fetch failed")]
        /\ CallCount("diff") = 1
        /\ CallNames = {"token", "diff"}
        /\ steps \cap {"gating", "review", "post"} = {}

\* the token was obtained and the diff fetch was refused
C22_Witness ==
    /\ Done
    /\ DiffRefused
    /\ token = Str(InstallationTokenValue)
    /\ CallCount("diff") = 1
    /\ response.status = 500

----------------------------------------------------------------------------
(* The order of the outbound calls *)

Rank(name) ==
    CASE name = "token" -> 1
      [] name = "diff" -> 2
      [] name = "gating" -> 3
      [] name = "review" -> 4
      [] name = "post" -> 5

\* the reply to an outbound call has arrived
Replied(reply) == reply # Undefined

\* C23: the outbound calls of one invocation are issued in the order token
\* exchange, diff fetch, gating model call, review model call, comment
\* post, each at most once, and each only when the call before it has been
\* answered.
C23_CallsInOrder ==
    /\ \A i, j \in 1..Len(calls) :
          i < j => Rank(calls[i].call) < Rank(calls[j].call)
    /\ "diff" \in CallNames =>
          "token" \in CallNames /\ Replied(tokenReply) /\ tokenReply.kind = "ok"
    /\ "gating" \in CallNames =>
          "diff" \in CallNames /\ Replied(diffReply) /\ diffReply.kind = "ok"
    /\ "review" \in CallNames =>
          /\ "diff" \in CallNames /\ GatingRan
          /\ "gating" \in CallNames => Replied(gatingReply)
    /\ "post" \in CallNames =>
          /\ "diff" \in CallNames /\ GatingRan
          /\ "gating" \in CallNames => Replied(gatingReply)
          /\ "review" \in CallNames => Replied(reviewReply)
    /\ \/ Len(calls) = 0
       \/ pc = "done"
       \/ Replied(CASE calls[Len(calls)].call = "token" -> tokenReply
                    [] calls[Len(calls)].call = "diff" -> diffReply
                    [] calls[Len(calls)].call = "gating" -> gatingReply
                    [] calls[Len(calls)].call = "review" -> reviewReply
                    [] calls[Len(calls)].call = "post" -> postReply)

\* all five calls were issued
C23_Witness ==
    /\ Done
    /\ Len(calls) = 5
    /\ [i \in 1..5 |-> calls[i].call] =
          <<"token", "diff", "gating", "review", "post">>

----------------------------------------------------------------------------
(* The installation token *)

TokenExchangeSucceeded ==
    CredentialStageRan /\ Replied(tokenReply) /\ tokenReply.kind = "ok"

\* the bearers of the diff fetch and of the comment post
PlatformBearers ==
    {calls[i].bearer : i \in {j \in 1..Len(calls) :
                                calls[j].call \in {"diff", "post"}}}

\* C24 (as claimed): whenever the token exchange succeeds (2xx),
\* getInstallationToken yields a token string, and the diff fetch and the
\* comment post are only ever issued with a token string obtained from
\* that exchange.
C24_TokenIsString ==
    /\ TokenExchangeSucceeded => token.t = "string"
    /\ \A b \in PlatformBearers :
          /\ b.t = "string"
          /\ TokenExchangeSucceeded
          /\ b = Get(tokenReply.data, "token")

----------------------------------------------------------------------------
(* JSON wrapped in other text *)

\* the first balanced object of a text: from its first "{" to the first "}"
\* after it (the objects of these texts hold no brace pieces of their own);
\* <<>> when there is none
FirstBalancedObject(text) ==
    LET opens == {i \in 1..Len(text) : text[i] = LBrace}
        first == CHOOSE i \in opens : \A j \in opens : i <= j
        closes == {i \in 1..Len(text) : text[i] = RBrace /\ i > first}
        close == CHOOSE i \in closes : \A j \in closes : i <= j
    IN  IF opens = {} THEN <<>>
        ELSE IF closes = {} THEN <<>>
        ELSE SubSeq(text, first, close)

\* the text holds a well-formed object, with or without text around it
HoldsObject(text) ==
    /\ FirstBalancedObject(text) # <<>>
    /\ ~ObjectParseThrows(FirstBalancedObject(text))

\* C25 (as claimed): for every gating or review response that is a
\* well-formed JSON object preceded and/or followed by other text, braces
\* included, the stage uses the content of that first object: its result is
\* the one it gives for the object alone.
C25_FirstObjectIsUsed ==
    /\ (GatingAnswered /\ HoldsObject(gatingReply.text)) =>
          needsReview = GatingParse(FirstBalancedObject(gatingReply.text))
    /\ (ReviewAnswered /\ HoldsObject(reviewReply.text)) =>
          ValidatedFindings = ReviewParse(FirstBalancedObject(reviewReply.text))

----------------------------------------------------------------------------
(* The identity assertion *)

\* the assertions sent to the platform
Assertions ==
    {calls[i].bearer : i \in {j \in 1..Len(calls) : calls[j].call = "token"}}

\* C26: every assertion built by createAppJwt at clock time `now` has the
\* configured application identifier as issuer, an issued-at time no more
\* than 60 seconds before `now`, and a lifetime exp - iat of at most 600
\* seconds.
C26_AssertionWindow ==
    \A a \in Assertions :
        /\ a.iss = env.appId
        /\ a.iat <= dateNow.n
        /\ dateNow.n - a.iat <= 60
        /\ a.exp - a.iat <= 600
        /\ a.exp > dateNow.n

\* an assertion built at the latest clock reading, from a key whose
\* newlines had to be restored
C26_Witness ==
    /\ CredentialStageRan
    /\ dateNow = Num(MaxClock)
    /\ env.privateKey = Str(PemStripped)
    /\ \E a \in Assertions : a.iat = MaxClock - 60 /\ a.exp - a.iat = 600

----------------------------------------------------------------------------
(* Invocations of one process *)

\* the invocations in flight: the running one, and the other one if any
InFlight == IF parked = Null THEN <<Locals>> ELSE <<Locals, parked>>

ReachedCredentialStage(l) == "auth" \in l.steps

\* the invocation had what createAppJwt needs to build an assertion
AssertionBuilt(l) ==
    /\ ReachedCredentialStage(l)
    /\ ~CreateAppJwt(l.env.appId, l.env.privateKey, 0).threw

TokenExchanges(l) ==
    Cardinality({j \in 1..Len(l.calls) : l.calls[j].call = "token"})

RECURSIVE Total(_)
Total(counts) ==
    IF counts = <<>> THEN 0 ELSE Head(counts) + Total(Tail(counts))

\* token-exchange calls made by the process so far
ExchangesMade == Total([i \in DOMAIN InFlight |-> TokenExchanges(InFlight[i])])

CountOf(P(_)) == Cardinality({i \in DOMAIN InFlight : P(InFlight[i])})

\* C27 (as claimed): every invocation that reaches the credential stage
\* performs its own token exchange: after N such invocations exactly N
\* token-exchange calls have been made.
C27_OneExchangePerInvocation ==
    ExchangesMade = CountOf(ReachedCredentialStage)

\* the assertion an invocation sent is the one built from its own
\* environment and clock reading
OwnAssertion(l) ==
    \A j \in 1..Len(l.calls) :
        l.calls[j].call = "token" =>
            l.calls[j].bearer =
                CreateAppJwt(l.env.appId, l.env.privateKey, l.dateNow.n).value

\* C27 (amended): no token or assertion is kept across invocations: every
\* invocation that reaches the credential stage with credentials from which
\* an assertion can be built builds its own and performs its own token
\* exchange, so N such invocations make exactly N token-exchange calls; an
\* invocation whose assertion cannot be built makes none.
C27_OneExchangePerAssertion ==
    /\ ExchangesMade = CountOf(AssertionBuilt)
    /\ \A i \in DOMAIN InFlight :
          /\ TokenExchanges(InFlight[i]) =
                (IF AssertionBuilt(InFlight[i]) THEN 1 ELSE 0)
          /\ OwnAssertion(InFlight[i])
          /\ ~ReachedCredentialStage(InFlight[i]) =>
                InFlight[i].token = Undefined

\* two invocations were served, each with its own assertion and exchange
C27_Witness ==
    /\ parked # Null
    /\ pc = "done" /\ parked.pc = "done"
    /\ AssertionBuilt(Locals) /\ AssertionBuilt(parked)
    /\ dateNow # parked.dateNow
    /\ ExchangesMade = 2

\* the reply was a 2xx
Accepted(reply) == reply # Undefined /\ reply.kind = "ok"

\* what an invocation holds follows from its own request and from the
\* replies to its own calls
OwnRequest(l) ==
    /\ ("parse" \in l.steps /\ ~JSONParseThrows(l.rawBody)) =>
          l.payload = JSONParse(l.rawBody)
    /\ "context" \in l.steps => l.ctx = Context(JSONParse(l.rawBody))

OwnToken(l) ==
    /\ l.token = IF Accepted(l.tokenReply)
                 THEN Get(l.tokenReply.data, "token")
                 ELSE Undefined
    /\ \A j \in 1..Len(l.calls) :
          l.calls[j].call \in {"diff", "post"} => l.calls[j].bearer = l.token

OwnDiff(l) ==
    l.diffText = IF Accepted(l.diffReply) THEN l.diffReply.data ELSE Undefined

OwnComment(l) ==
    /\ "gating" \in l.steps =>
          l.needsReview =
              GatingDecision(RunGatingModelResult(l.env.gatingDeployment,
                                                  l.gatingReply))
    /\ ("gating" \in l.steps /\ "review" \notin l.steps
            /\ l.pc \in {"post", "done"}) =>
          l.commentBody = Reassurance
    /\ "review" \in l.steps =>
          /\ l.reviewResponse =
                ReviewOutcome(RunReviewModelResult(l.env.reviewDeployment,
                                                   l.reviewReply))
          /\ l.commentBody = RenderComment(l.reviewResponse.findings)
    /\ \A j \in 1..Len(l.calls) :
          l.calls[j].call = "post" => l.calls[j].body = l.commentBody

OwnResponse(l) ==
    "post" \in l.steps =>
        LET r == PostResponse(l.postReply, l.needsReview, l.reviewResponse)
        IN  l.response = [status |-> r.status, body |-> r.body]

----------------------------------------------------------------------------
(* One response per request *)

Responded == response # NoResponse

\* the handler has returned or can take a step
AnsweredOrRunning ==
    /\ Done <=> Responded
    /\ Responded => response.status \in {200, 400, 401, 500}
    /\ ~Done => ENABLED Next

\* a response, once produced, is the response of the request
ResponseKept == Responded => response' = response

\* C29: every request ends with exactly one response, with status 200, 400,
\* 401 or 500: until it has responded the handler always has a next step,
\* each stage hands over to the next or ends the request with a response
\* that is never replaced, and an exception in any stage becomes a 500
\* response.
C29_OneResponse == []AnsweredOrRunning /\ [][ResponseKept]_vars

\* the body was the JSON value null: reading payload.action threw and the
\* handler answered 500
C29_Witness ==
    /\ Done
    /\ payload = Null
    /\ "filter" \in steps
    /\ response = [status |-> 500, body |-> ErrorBody("Internal server error")]

----------------------------------------------------------------------------
(* callLLM: the completion text of a response of the model service         *)

MaxOutputItems == 2
MaxContentItems == 2

RECURSIVE TrimStart(_)
TrimStart(s) ==
    IF s # <<>> /\ Head(s) = " " THEN TrimStart(Tail(s)) ELSE s

RECURSIVE TrimEnd(_)
TrimEnd(s) ==
    IF s # <<>> /\ s[Len(s)] = " "
    THEN TrimEnd(SubSeq(s, 1, Len(s) - 1))
    ELSE s

\* String.prototype.trim
Trim(s) == TrimEnd(TrimStart(s))

\* Array.prototype.find with the test c.type === "output_text", on a content
\* array
RECURSIVE FindOutputText(_)
FindOutputText(content) ==
    IF content = <<>> THEN Undefined
    ELSE IF Get(Head(content), "type") = Str("output_text")
         THEN Head(content)
         ELSE FindOutputText(Tail(content))

\* callLLM 244-255: the loop over data.output.  A message item whose content
\* is an array is searched for its first output_text content item; when that
\* item has truthy text the trimmed text is returned, and otherwise the loop
\* goes on with the next output item.
RECURSIVE MessageText(_)
MessageText(output) ==
    IF output = <<>> THEN LlmThrew
    ELSE LET outputItem == Head(output)
             content == Get(outputItem, "content")
             textContent ==
                 IF /\ Get(outputItem, "type") = Str("message")
                    /\ content.t = "array"
                 THEN FindOutputText(content.items)
                 ELSE Undefined
         IN  IF Truthy(textContent) /\ Truthy(Get(textContent, "text"))
             THEN LlmText(Trim(Get(textContent, "text").s))
             ELSE MessageText(Tail(output))

\* a string with something other than white space in it
HasText(v) == v.t = "string" /\ Truthy(v) /\ Len(Trim(v.s)) > 0

\* callLLM 215-282, from the parsed response body to the text returned or the
\* error thrown.  Whether the error names an incomplete response (258-270) or
\* a missing completion text (273-282) depends on data.status; both are
\* errors thrown to the caller.
CallLLMResult(data) ==
    IF HasText(Get(data, "output_text"))
          /\ Get(data, "output_text") # Str(<<"u", "n", "d", "e", "f", "i", "n", "e", "d">>)
    THEN LlmText(Trim(Get(data, "output_text").s))
    ELSE IF HasText(Get(data, "text"))
    THEN LlmText(Trim(Get(data, "text").s))
    ELSE IF Get(data, "output").t = "array" /\ Get(data, "output").items # <<>>
    THEN MessageText(Get(data, "output").items)
    ELSE LlmThrew

\* ResponsesApiContentItem (client.ts 36-39)
ContentItem(type, text) ==
    Obj([k \in {"type", "text"} |->
            IF k = "type" THEN Str(type) ELSE Str(text)])

ContentItems ==
    { ContentItem("output_text", <<>>),
      ContentItem("output_text", <<"a">>),
      ContentItem("output_text", <<" ", "b", " ">>),
      ContentItem("refusal", <<"r">>) }

SeqsUpTo(S, n) == UNION { [1..m -> S] : m \in 0..n }

ContentArrays == SeqsUpTo(ContentItems, MaxContentItems)

\* ResponsesApiOutputItem (client.ts 41-45)
MessageItem(content) ==
    Obj([k \in {"type", "content"} |->
            IF k = "type" THEN Str("message") ELSE Arr(content)])

ReasoningItem == Obj([k \in {"type"} |-> Str("reasoning")])

OutputItems ==
    {ReasoningItem, Obj([k \in {"type"} |-> Str("message")])}
        \cup { MessageItem(c) : c \in ContentArrays }

OutputLists == SeqsUpTo(OutputItems, MaxOutputItems)

\* ResponsesApiResponse (client.ts 47-60): bodies without a direct text
\* field, with every output list, and bodies with one
ApiResponses ==
    { Obj([k \in {"output"} |-> Arr(o)]) : o \in OutputLists }
        \cup { Obj(NoProps),
               Obj([k \in {"output_text"} |-> Str(<<" ", "t">>)]),
               Obj([k \in {"output_text", "text"} |->
                       IF k = "text" THEN Str(<<"x">>) ELSE Str(<<" ">>)]),
               Obj([k \in {"output_text", "output"} |->
                       IF k = "output_text" THEN Str(<<"t">>)
                       ELSE Arr(<<MessageItem(<<ContentItem("output_text", <<"a">>)>>)>>)]),
               Obj([k \in {"text", "output"} |->
                       IF k = "text" THEN Str(<<"x">>)
                       ELSE Arr(<<MessageItem(<<ContentItem("output_text", <<"a">>)>>)>>)]) }

InitCallLLM ==
    /\ secret = Str(SenderKey)
    /\ rawBody = InvocationBody
    /\ signature = Str(ExpectedSignature(SenderKey, rawBody))
    /\ event = Str(IssueComment)
    /\ pc = "verify"
    /\ payload = Undefined
    /\ ctx = NoCtx
    /\ token = Undefined
    /\ diffText = Undefined
    /\ diffStats = Undefined
    /\ needsReview = Undefined
    /\ reviewResponse = Null
    /\ commentBody = Undefined
    /\ response = NoResponse
    /\ env = NoEnv
    /\ gatingReply = Undefined
    /\ reviewReply = Undefined
    /\ postReply = Undefined
    /\ tokenReply = Undefined
    /\ diffReply = Undefined
    /\ dateNow = Undefined
    /\ signKey = Undefined
    /\ parked = Null
    /\ apiData \in ApiResponses
    /\ completion = Undefined
    /\ cachedClient = Null
    /\ clientEnv = NoClientEnv
    /\ clientCalls = <<>>
    /\ calls = <<>>
    /\ steps = {}

\* callLLM on the response body it parsed
CallLLM ==
    /\ completion = Undefined
    /\ completion' = CallLLMResult(apiData)
    /\ UNCHANGED <<secret, rawBody, signature, event, pc, payload, ctx,
                   token, diffText, diffStats, needsReview, reviewResponse,
                   commentBody, response, env, gatingReply, reviewReply,
                   postReply, tokenReply, diffReply, dateNow, signKey,
                   parked, apiData, client, calls, steps>>

NextCallLLM == CallLLM

SpecCallLLM == InitCallLLM /\ [][NextCallLLM]_vars

----------------------------------------------------------------------------
(* The text callLLM takes from an output list *)

\* the body has an output list and neither output_text nor text
OutputListOnly ==
    /\ DOMAIN apiData.props = {"output"}
    /\ Get(apiData, "output").t = "array"

\* the output_text content items of the list's message items, in order
RECURSIVE OutputTextItems(_)
OutputTextItems(output) ==
    IF output = <<>> THEN <<>>
    ELSE LET item == Head(output)
             content == Get(item, "content")
         IN  (IF Get(item, "type") = Str("message") /\ content.t = "array"
              THEN SelectSeq(content.items,
                       LAMBDA c : Get(c, "type") = Str("output_text"))
              ELSE <<>>) \o OutputTextItems(Tail(output))

\* those of them whose text is not empty
WellFormedTexts ==
    SelectSeq(OutputTextItems(Get(apiData, "output").items),
              LAMBDA c : Truthy(Get(c, "text")))

\* C30: when the response body has no direct text field but an output list,
\* callLLM returns the text of the first output_text content item with
\* non-empty text among the list's message items, whatever the shape of the
\* list; in particular when the first output_text item of a message has empty
\* text and a later content item of the same message has text.
C30_FirstTextItemReturned ==
    (OutputListOnly /\ completion # Undefined /\ WellFormedTexts # <<>>)
        => completion = LlmText(Trim(Get(Head(WellFormedTexts), "text").s))

----------------------------------------------------------------------------
(* The request of the gating stage *)

\* the request bodies sent to the gating model
GatingRequests ==
    {calls[i].request : i \in {j \in DOMAIN calls : calls[j].call = "gating"}}

\* the request names a maximum output size
OutputSizeBounded(request) ==
    /\ Get(request, "max_output_tokens").t = "number"
    /\ Get(request, "max_output_tokens").n > 0

\* C31: every request of the gating stage to the model service carries a
\* bounded maximum output size and a temperature of zero.
C31_GatingRequestDeterministic ==
    \A request \in GatingRequests :
        /\ OutputSizeBounded(request)
        /\ Get(request, "temperature") = Num(0)

----------------------------------------------------------------------------
(* The private key with its newlines restored *)

HeaderLine == BeginMarker \o PrivateKeyWords \o Dashes
FooterLine == EndMarker \o PrivateKeyWords \o Dashes

\* the text of key between its marker lines
Between(key, header, footer) ==
    SubSeq(key, Len(header) + 1, Len(key) - Len(footer))

\* key is header, some text, footer
Framed(key, header, footer) ==
    /\ Len(key) >= Len(header) + Len(footer)
    /\ SubSeq(key, 1, Len(header)) = header
    /\ SubSeq(key, Len(key) - Len(footer) + 1, Len(key)) = footer

\* the lines of a text, which "\n" separates
RECURSIVE LinesOf(_)
LinesOf(text) ==
    LET at == IndexOf(text, <<"\n">>) IN
    IF at < 0 THEN <<text>>
    ELSE <<SubSeq(text, 1, at)>> \o LinesOf(SubSeq(text, at + 2, Len(text)))

RECURSIVE Concat(_)
Concat(lines) ==
    IF lines = <<>> THEN <<>> ELSE Head(lines) \o Concat(Tail(lines))

\* createAppJwt came to sign with a stored key that has its two markers, a
\* body between them and no newline
StoredWithoutNewlines ==
    /\ "auth" \in steps
    /\ signKey # Undefined
    /\ ~Includes(env.privateKey.s, <<"\n">>)
    /\ Framed(env.privateKey.s, HeaderLine, FooterLine)
    /\ Between(env.privateKey.s, HeaderLine, FooterLine) # <<>>

\* C32: when the decoded private key has no newline, the key createAppJwt
\* signs with is the BEGIN marker line, the key body in lines of at most 64
\* characters and the END marker line; the body lines joined are the
\* original body without its white space.
C32_BodyRewrapped ==
    StoredWithoutNewlines =>
        LET header == HeaderLine \o <<"\n">>
            footer == <<"\n">> \o FooterLine \o <<"\n">>
            lines == LinesOf(Between(signKey.s, header, footer))
            body == Between(env.privateKey.s, HeaderLine, FooterLine)
        IN  /\ Framed(signKey.s, header, footer)
            /\ \A i \in DOMAIN lines : Len(lines[i]) <= 64
            /\ Concat(lines)
                   = SelectSeq(body, LAMBDA c : c \notin WhitespaceChars)

\* a body of more than two lines, stored with a white space character in it,
\* was rebuilt and the assertion signed
C32_Witness ==
    /\ StoredWithoutNewlines
    /\ env.privateKey
           = Str(Stripped(Spaced(KeyBody(2 * LineLength + 1), LineLength, " ")))
    /\ Len(LinesOf(signKey.s)) = 6
    /\ tokenReply # Undefined

----------------------------------------------------------------------------
(* getClient: the client handle of the model service, kept by the module   *)

MaxClientCalls == 3

\* the invocations that call getClient
Callers == {1, 2}

\* String.prototype.startsWith
StartsWith(text, prefix) ==
    Len(text) >= Len(prefix) /\ SubSeq(text, 1, Len(prefix)) = prefix

Http == <<"h", "t", "t", "p", ":", "/", "/">>
Https == <<"h", "t", "t", "p", "s", ":", "/", "/">>

\* getClient 27-32: the endpoint trimmed, with a scheme and without its
\* last "/"
CleanEndpoint(endpoint) ==
    LET trimmed == Trim(endpoint)
        withScheme ==
            IF ~StartsWith(trimmed, Http) /\ ~StartsWith(trimmed, Https)
            THEN Https \o trimmed
            ELSE trimmed
    IN  IF withScheme # <<>> /\ withScheme[Len(withScheme)] = "/"
        THEN SubSeq(withScheme, 1, Len(withScheme) - 1)
        ELSE withScheme

\* new OpenAI({apiKey, baseURL}); id tells one object from another
NewClient(id, endpoint, apiKey) ==
    [t |-> "client", id |-> id, apiKey |-> apiKey,
     baseURL |-> CleanEndpoint(endpoint.s)
                     \o <<"/", "o", "p", "e", "n", "a", "i", "/", "v", "1", "/">>]

ThrewNotConfigured == Threw("Azure OpenAI credentials not configured")

\* the cached handle is not looked at
GetClientResultUncached(cached, endpoint, apiKey, id) ==
    IF ~Truthy(endpoint) \/ ~Truthy(apiKey) THEN ThrewNotConfigured
    ELSE Returned(NewClient(id, endpoint, apiKey))

\* getClient (part_004 14-45): what the call returns or throws
GetClientResult(cached, endpoint, apiKey, id) ==
    IF Truthy(cached) THEN Returned(cached)
    ELSE IF ~Truthy(endpoint) \/ ~Truthy(apiKey) THEN ThrewNotConfigured
    ELSE Returned(NewClient(id, endpoint, apiKey))

\* getClient has no await in it: a call runs from its test of cachedClient
\* to its return before any other code of the process runs.  The handle it
\* returns is the cached one afterwards.
GetClient(caller) ==
    /\ Len(clientCalls) < MaxClientCalls
    /\ LET r == GetClientResult(cachedClient, clientEnv.endpoint,
                                clientEnv.apiKey, Len(clientCalls) + 1)
       IN  /\ clientCalls' = Append(clientCalls, [caller |-> caller, result |-> r])
           /\ cachedClient' = IF r.threw THEN cachedClient ELSE r.value
    /\ UNCHANGED <<secret, rawBody, signature, event, pc, payload, ctx,
                   token, diffText, diffStats, needsReview, reviewResponse,
                   commentBody, response, env, gatingReply, reviewReply,
                   postReply, tokenReply, diffReply, dateNow, signKey,
                   parked, apiData, completion, clientEnv, calls, steps>>

Endpoints ==
    { Undefined, Str(<<>>),
      Str(<<"r", ".", "a", "i">>),
      Str(<<" ">> \o Https \o <<"r", ".", "a", "i", "/", " ">>),
      Str(Http \o <<"r", ".", "a", "i">>) }

ApiKeys == {Undefined, Str(<<"k">>)}

InitClient ==
    /\ secret = Str(SenderKey)
    /\ rawBody = InvocationBody
    /\ signature = Str(ExpectedSignature(SenderKey, rawBody))
    /\ event = Str(IssueComment)
    /\ pc = "verify"
    /\ payload = Undefined
    /\ ctx = NoCtx
    /\ token = Undefined
    /\ diffText = Undefined
    /\ diffStats = Undefined
    /\ needsReview = Undefined
    /\ reviewResponse = Null
    /\ commentBody = Undefined
    /\ response = NoResponse
    /\ env = NoEnv
    /\ gatingReply = Undefined
    /\ reviewReply = Undefined
    /\ postReply = Undefined
    /\ tokenReply = Undefined
    /\ diffReply = Undefined
    /\ dateNow = Undefined
    /\ signKey = Undefined
    /\ parked = Null
    /\ apiData = Undefined
    /\ completion = Undefined
    /\ cachedClient = Null
    /\ clientEnv \in [endpoint : Endpoints, apiKey : ApiKeys]
    /\ clientCalls = <<>>
    /\ calls = <<>>
    /\ steps = {}

NextClient == \E caller \in Callers : GetClient(caller)

SpecClient == InitClient /\ [][NextClient]_vars

----------------------------------------------------------------------------
(* The cached client handle *)

ClientConfigured == Truthy(clientEnv.endpoint) /\ Truthy(clientEnv.apiKey)

\* a handle made with the configured key for an address of the service
Usable(result) ==
    /\ ~result.threw
    /\ result.value.t = "client"
    /\ result.value.apiKey = clientEnv.apiKey
    /\ \/ StartsWith(result.value.baseURL, Http)
       \/ StartsWith(result.value.baseURL, Https)

----------------------------------------------------------------------------
(* Verification before parsing *)

\* C34: the signature is verified on the raw body before any parsing.  With
\* the secret configured, a request whose body is not JSON is answered 401
\* when its signature header is absent or wrong, and 400 "Invalid JSON
\* payload", with no downstream call, exactly when its signature is valid;
\* parsing is never attempted for a request that is not authenticated.
C34_VerifiedBeforeParsed ==
    /\ "parse" \in steps => SignatureValid
    /\ (Done /\ Truthy(secret) /\ ~BodyParses) =>
          /\ calls = <<>>
          /\ ~SignatureValid => response.status = 401
          /\ SignatureValid => Answered(400, ErrorBody("Invalid JSON payload"))

----------------------------------------------------------------------------
(* Findings of equal confidence *)

\* blocks renders the findings fs[idx[1]], fs[idx[2]], ..., and among
\* findings of one confidence the earlier received comes first, whether
\* rendered or left out
RendersStably(blocks, fs, idx) ==
    LET k == Len(blocks)
        picked == {idx[i] : i \in 1..k}
    IN  /\ \A i, j \in 1..k : idx[i] = idx[j] => i = j
        /\ \A i \in 1..k : blocks[i] = Block(fs[idx[i]])
        /\ \A i, j \in 1..k :
              (i < j /\ fs[idx[i]].confidence = fs[idx[j]].confidence)
                  => idx[i] < idx[j]
        /\ \A j \in (1..Len(fs)) \ picked : \A i \in 1..k :
              fs[j].confidence = fs[idx[i]].confidence => idx[i] < j

\* C35: findings of equal confidence keep, in the rendered comment, the
\* order in which the model returned them; when more findings tie at the
\* cut-off than there are places, the ones rendered are the earliest
\* received.
C35_TiesInOrderReceived ==
    \A body \in PostedBodies :
        LET fs == ValidatedFindings IN
        Len(fs) >= 1 =>
            /\ Len(body.blocks) = Min(3, Len(fs))
            /\ \E idx \in [1..Min(3, Len(fs)) -> 1..Len(fs)] :
                  RendersStably(body.blocks, fs, idx)

\* four findings of one confidence, the first three of them different,
\* and the comment holds the first three in the order received
C35_Witness ==
    /\ Done
    /\ Len(ValidatedFindings) = 4
    /\ \A i \in 1..4 : ValidatedFindings[i].confidence = Num(9)
    /\ \A i, j \in 1..3 : ValidatedFindings[i] = ValidatedFindings[j] => i = j
    /\ \E body \in PostedBodies :
          body.blocks = [i \in 1..3 |-> Block(ValidatedFindings[i])]

----------------------------------------------------------------------------
(* One well-formed invocation up to its gating stage, over the diff texts  *)
(* the platform may return.                                                *)

MaxFragments == 3

\* what a diff text is put together from: the two markers, line
\* terminators, a changed line, and the character sequences that
\* String.prototype.replace reads as patterns
DiffFragments ==
    { DiffGitMarker, HunkMarker, <<"\n">>, <<"\r">>, <<"+", "x">>,
      <<"$", "&">>, <<"$", "$">>, Placeholder }

FragmentTexts ==
    {Concat(fragments) : fragments \in SeqsUpTo(DiffFragments, MaxFragments)}

FetchAnyDiff ==
    DiffStage({HttpOk(Str(text)) : text \in FragmentTexts} \cup {HttpError})

NextDiff ==
    \/ VerifySignature
    \/ ParsePayload
    \/ FilterEvent
    \/ CheckInvocation
    \/ CheckPullRequest
    \/ ExtractContext
    \/ GetInstallationTokenInProcess
    \/ FetchAnyDiff
    \/ RunGatingModelInProcess

SpecDiff == InitInvocation /\ [][NextDiff]_vars

----------------------------------------------------------------------------
(* The prompt of the gating stage *)

\* the prompts sent to the gating model
GatingPrompts ==
    {Get(Get(request, "input").items[1], "content") : request \in GatingRequests}

\* C36: for every diff text, the prompt sent to the gating model is the
\* fixed instruction text with the diff in the place of {DIFF}, character
\* for character.
C36_DiffEmbeddedVerbatim ==
    \A prompt \in GatingPrompts :
        prompt = Str(PromptHead \o diffText.s \o PromptTail)

----------------------------------------------------------------------------
(* The statistics of the diff *)

\* the lines of a text, which a line terminator ends
RECURSIVE TextLines(_)
TextLines(text) ==
    LET ends == {i \in 1..Len(text) : text[i] \in LineTerminators} IN
    IF ends = {} THEN <<text>>
    ELSE LET at == CHOOSE i \in ends : \A j \in ends : i <= j
         IN  <<SubSeq(text, 1, at - 1)>>
                 \o TextLines(SubSeq(text, at + 1, Len(text)))

\* the number of lines of text that start with marker
LinesStartingWith(text, marker) ==
    LET lines == TextLines(text) IN
    Cardinality({i \in DOMAIN lines : StartsWith(lines[i], marker)})

\* C37: the diff statistics are functions of the fetched diff text: there
\* are none before a diff is fetched, and afterwards fileCount is the number
\* of lines of the diff text that start with "diff --git " and hunkCount
\* the number of lines that start with "@@".
C37_StatsOfDiffText ==
    /\ diffText = Undefined => diffStats = Undefined
    /\ diffText # Undefined =>
          /\ diffStats.fileCount
                 = LinesStartingWith(diffText.s, DiffGitMarker)
          /\ diffStats.hunkCount = LinesStartingWith(diffText.s, HunkMarker)

\* a diff of one file with one hunk went on to the gating stage
C37_Witness ==
    /\ "gating" \in steps
    /\ diffText = Str(DiffGitMarker \o <<"\n">> \o HunkMarker)
    /\ diffStats.fileCount = 1
    /\ diffStats.hunkCount = 1

----------------------------------------------------------------------------
(* Termination of a request (route.ts 82-403)                              *)

(* The handler is one async function: after each await its continuation   *)
(* runs as soon as the awaited call has returned or failed. A stage       *)
(* action is the call together with its outcome, so that every outbound   *)
(* call returning or failing is weak fairness of the handler's steps.     *)
(* Whether a request is answered does not depend on how many findings the  *)
(* review model reports (the review stage is one step for every text), so *)
(* the review texts here hold at most one entry.                          *)
LiveReviewTexts ==
    { <<LBrace, Member("findings", Arr(<<>>)), RBrace>>,
      <<Prose>>,
      <<LBrace, RBrace>>,
      <<LBrace, Member("findings", Str(<<"n", "o">>)), RBrace>> }
        \cup
    {<<LBrace, Member("findings", Arr(<<e>>)), RBrace>> : e \in FindingEntries}

RunReviewModelLive == ReviewStage(Deployments, LlmResults(LiveReviewTexts))

NextLive ==
    \/ VerifySignature
    \/ ParsePayload
    \/ FilterEvent
    \/ CheckInvocation
    \/ CheckPullRequest
    \/ ExtractContext
    \/ GetInstallationToken
    \/ FetchDiff
    \/ RunGatingModel
    \/ RunReviewModelLive
    \/ PostComment

SpecLive == Init /\ [][NextLive]_vars /\ WF_vars(NextLive)

\* the position of each stage in the text of the handler
StageOrder ==
    <<"verify", "parse", "filter", "invocation", "pr", "context", "auth",
      "diff", "gating", "review", "post", "done">>

\* 0 for a position that is no stage of the handler
StageRank(p) ==
    IF \E i \in DOMAIN StageOrder : StageOrder[i] = p
    THEN CHOOSE i \in DOMAIN StageOrder : StageOrder[i] = p
    ELSE 0

\* no step goes back to a stage or stays in it
Advances == StageRank(pc') > StageRank(pc)

\* C38: when every outbound call (token exchange, diff fetch, gating call,
\* review call, comment post) eventually returns or fails, every request
\* eventually receives its response: no step of the handler loops, retries
\* or waits, each one moves to a later stage or ends the request.
C38_EveryRequestAnswered == <>Responded /\ [][Advances]_vars

\* a request that made all five outbound calls has its response
C38_Witness ==
    /\ Responded
    /\ {"auth", "diff", "gating", "review", "post"} \subseteq steps
    /\ Len(calls) = 5
====
